---- MODULE Spec2Model ----
(***************************************************************************)
(* A model of dtparse (src/src/lib.rs): the Tokenizer, ParserInfo, the YMD *)
(* resolver, Parser::parse and the assembler.                              *)
(*                                                                         *)
(* A string is a sequence of one-character strings.  An Option<T> is a     *)
(* record [some, v].  A call that panics (unwrap of None/Err, index or     *)
(* slice out of range, chrono's from_ymd/from_hms on an invalid value)     *)
(* ends the call with the outcome "panic".                                 *)
(***************************************************************************)
EXTENDS Integers, Sequences, FiniteSets, TLC

VARIABLES
    input,          \* the string handed to tokenize / parse
    parse_string,   \* Tokenizer.parse_string (front = next character)
    token_stack,    \* Tokenizer.token_stack (last = next token)
    collected,      \* the tokens collected from the Tokenizer so far
    tdone,          \* Tokenizer::next has returned None
    args,           \* arguments of a pure function under check
    ret,            \* its return value
    opts,           \* the arguments of Parser::parse besides timestr
    walk,           \* locals of parse_with_tokens: l, i, res, ymd, skipped_idxs
    pc,             \* position of the parse call
    result          \* what the parse call returned

vars == <<input, parse_string, token_stack, collected, tdone, args, ret,
          opts, walk, pc, result>>

-----------------------------------------------------------------------------
(* Bounds of the model *)

\* longest input of the tokenizer specification
MaxLen == 5

\* most pieces of an input of the parser specification
MaxPieces == 3

\* the reference years of the convertyear specification: 1950 .. 1950 + RefSpan
RefSpan == 110

\* largest year argument of the convertyear specification
MaxYearArg == 110

\* the years of the days_in_month specification: 1890 .. 1890 + DimSpan
DimSpan == 140

\* the unlabelled YMD values of the resolve_ymd specification: 0 .. MaxYmd
MaxYmd == 33

\* the calls of YMD::append before resolve_ymd
MaxAppends == 3

-----------------------------------------------------------------------------
(* Characters *)

Digits == {"0", "1", "2", "3", "4", "5", "6", "7", "8", "9"}

LowerLetters == {"a", "b", "c", "d", "e", "f", "g", "h", "i", "j", "k", "l", "m",
                 "n", "o", "p", "q", "r", "s", "t", "u", "v", "w", "x", "y", "z"}

UpperLetters == {"A", "B", "C", "D", "E", "F", "G", "H", "I", "J", "K", "L", "M",
                 "N", "O", "P", "Q", "R", "S", "T", "U", "V", "W", "X", "Y", "Z"}

Whitespace == {" ", "\t", "\n"}

is_numeric(c) == c \in Digits

is_alphabetic(c) == c \in LowerLetters \cup UpperLetters

is_whitespace(c) == c \in Whitespace

\* let v = ...; F(v): the value is computed once, bound and used by name
Let(v, F(_)) == CHOOSE y \in {F(x) : x \in {v}} : TRUE

Last(s) == s[Len(s)]

Front(s) == SubSeq(s, 1, Len(s) - 1)

RECURSIVE Reverse(_)
Reverse(s) == IF s = <<>> THEN <<>> ELSE Append(Reverse(Tail(s)), Head(s))

RECURSIVE Concat(_)
Concat(ss) == IF ss = <<>> THEN <<>> ELSE Head(ss) \o Concat(Tail(ss))

Contains(s, c) == \E k \in 1..Len(s) : s[k] = c

Count(s, c) == Cardinality({k \in 1..Len(s) : s[k] = c})

Replace(s, a, b) == [k \in 1..Len(s) |-> IF s[k] = a THEN b ELSE s[k]]

-----------------------------------------------------------------------------
(* Tokenizer::next, lib.rs 183-303.  A scan is the loop's state: ps the     *)
(* remaining parse_string, cs the char_stack, state, seen (seen_letters),  *)
(* brk (the loop has hit a break).                                         *)

\* StepEmpty with a whitespace character that does not end the token: a run of
\* whitespace would come out as one token
StepEmpty_merging(next, r) ==
    IF is_numeric(next)
      THEN [r EXCEPT !.state = "Numeric", !.cs = Append(r.cs, next)]
    ELSE IF is_alphabetic(next)
      THEN [r EXCEPT !.state = "Alpha", !.seen = TRUE, !.cs = Append(r.cs, next)]
    ELSE IF is_whitespace(next)
      THEN [r EXCEPT !.cs = Append(r.cs, " ")]
    ELSE [r EXCEPT !.cs = Append(r.cs, next), !.brk = TRUE]

StepEmpty(next, r) ==
    IF is_numeric(next)
      THEN [r EXCEPT !.state = "Numeric", !.cs = Append(r.cs, next)]
    ELSE IF is_alphabetic(next)
      THEN [r EXCEPT !.state = "Alpha", !.seen = TRUE, !.cs = Append(r.cs, next)]
    ELSE IF is_whitespace(next)
      THEN [r EXCEPT !.cs = Append(r.cs, " "), !.brk = TRUE]
    ELSE [r EXCEPT !.cs = Append(r.cs, next), !.brk = TRUE]

\* StepAlpha without the push-back of the character that ends the word
StepAlpha_dropping(next, r) ==
    IF is_alphabetic(next)
      THEN [r EXCEPT !.cs = Append(r.cs, next)]
    ELSE IF next = "."
      THEN [r EXCEPT !.state = "AlphaDecimal", !.cs = Append(r.cs, next)]
    ELSE [r EXCEPT !.brk = TRUE]

StepAlpha(next, r) ==
    IF is_alphabetic(next)
      THEN [r EXCEPT !.cs = Append(r.cs, next)]
    ELSE IF next = "."
      THEN [r EXCEPT !.state = "AlphaDecimal", !.cs = Append(r.cs, next)]
    ELSE [r EXCEPT !.ps = <<next>> \o r.ps, !.brk = TRUE]

StepAlphaDecimal(next, r) ==
    IF next = "." \/ is_alphabetic(next)
      THEN [r EXCEPT !.cs = Append(r.cs, next)]
    ELSE IF is_numeric(next) /\ Last(r.cs) = "."
      THEN [r EXCEPT !.cs = Append(r.cs, next), !.state = "NumericDecimal"]
    ELSE [r EXCEPT !.ps = <<next>> \o r.ps, !.brk = TRUE]

StepNumeric(next, r) ==
    IF is_numeric(next)
      THEN [r EXCEPT !.cs = Append(r.cs, next)]
    ELSE IF next = "." \/ (next = "," /\ Len(r.cs) >= 2)
      THEN [r EXCEPT !.cs = Append(r.cs, next), !.state = "NumericDecimal"]
    ELSE [r EXCEPT !.ps = <<next>> \o r.ps, !.brk = TRUE]

StepNumericDecimal(next, r) ==
    IF next = "." \/ is_numeric(next)
      THEN [r EXCEPT !.cs = Append(r.cs, next)]
    ELSE IF is_alphabetic(next) /\ Last(r.cs) = "."
      THEN [r EXCEPT !.cs = Append(r.cs, next), !.state = "AlphaDecimal"]
    ELSE [r EXCEPT !.ps = <<next>> \o r.ps, !.brk = TRUE]

\* the while-let loop: pop a character, step, until a break or the end
RECURSIVE Scan(_)
Scan(scan) ==
    Let(scan,
        LAMBDA r :
          IF r.brk \/ r.ps = <<>> THEN r
          ELSE Let([r EXCEPT !.ps = Tail(r.ps)],
                   LAMBDA p :
                     Scan(CASE r.state = "Empty" -> StepEmpty(Head(r.ps), p)
                            [] r.state = "Alpha" -> StepAlpha(Head(r.ps), p)
                            [] r.state = "AlphaDecimal" -> StepAlphaDecimal(Head(r.ps), p)
                            [] r.state = "Numeric" -> StepNumeric(Head(r.ps), p)
                            [] r.state = "NumericDecimal" ->
                                 StepNumericDecimal(Head(r.ps), p))))

\* decimal_split, lib.rs 306-359: d is [ts (token_stack), cs, state]
SplitChar(c, d, cast_period) ==
    LET character == IF cast_period THEN "." ELSE c IN
    IF d.state = "Empty" THEN
        IF is_alphabetic(c) THEN [d EXCEPT !.cs = Append(d.cs, c), !.state = "Alpha"]
        ELSE IF is_numeric(c) THEN [d EXCEPT !.cs = Append(d.cs, c), !.state = "Numeric"]
        ELSE [d EXCEPT !.ts = Append(d.ts, <<character>>)]
    ELSE IF d.state = "Alpha" THEN
        IF is_alphabetic(c) THEN [d EXCEPT !.cs = Append(d.cs, c)]
        ELSE [ts |-> d.ts \o <<d.cs, <<character>>>>, cs |-> <<>>, state |-> "Empty"]
    ELSE
        IF is_numeric(c) THEN [d EXCEPT !.cs = Append(d.cs, c)]
        ELSE [ts |-> d.ts \o <<d.cs, <<character>>>>, cs |-> <<>>, state |-> "Empty"]

RECURSIVE SplitLoop(_, _, _)
SplitLoop(chars, d, cast_period) ==
    IF chars = <<>> THEN d
    ELSE Let(SplitChar(Head(chars), d, cast_period),
             LAMBDA e : SplitLoop(Tail(chars), e, cast_period))

decimal_split(characters, cast_period) ==
    LET d == SplitLoop(characters, [ts |-> <<>>, cs |-> <<>>, state |-> "Empty"], cast_period)
    IN IF d.state = "Empty" THEN d.ts ELSE Append(d.ts, d.cs)

\* lib.rs 266-293: the tokens one scan yields, first token first
ScanTokens(r) ==
    LET dot_count == Count(r.cs, ".")
        needs_split == r.seen \/ dot_count > 1 \/ Last(r.cs) = "." \/ Last(r.cs) = ","
    IN  IF r.state = "AlphaDecimal" /\ needs_split THEN decimal_split(r.cs, FALSE)
        ELSE IF r.state = "NumericDecimal" /\ needs_split
          THEN decimal_split(r.cs, dot_count = 0)
        ELSE <<r.cs>>

\* lib.rs 298-302: the comma of a dot-less numeric decimal becomes a period
FinalToken(state, token) ==
    IF state = "NumericDecimal" /\ ~Contains(token, ".")
      THEN Replace(token, ",", ".")
      ELSE token

\* One call of next on the tokenizer t = [ps, ts]: [none, tok, ps, ts]
TokenizerNext(t) ==
    IF t.ts # <<>>
      THEN [none |-> FALSE, tok |-> Last(t.ts), ps |-> t.ps, ts |-> Front(t.ts)]
    ELSE IF t.ps = <<>>
      THEN [none |-> TRUE, tok |-> <<>>, ps |-> t.ps, ts |-> t.ts]
    ELSE Let(Scan([ps |-> t.ps, cs |-> <<>>, state |-> "Empty",
                   seen |-> FALSE, brk |-> FALSE]),
             LAMBDA r :
               Let(t.ts \o Reverse(ScanTokens(r)),
                   LAMBDA stack :
                     [none |-> FALSE, tok |-> FinalToken(r.state, Last(stack)),
                      ps |-> r.ps, ts |-> Front(stack)]))

\* tokenize, lib.rs 374-377: collect the iterator
RECURSIVE Collect(_, _)
Collect(t, acc) ==
    LET n == TokenizerNext(t) IN
    IF n.none THEN acc ELSE Collect([ps |-> n.ps, ts |-> n.ts], Append(acc, n.tok))

tokenize(s) == Collect([ps |-> s, ts |-> <<>>], <<>>)

-----------------------------------------------------------------------------
(* Option<T>, strings and integers *)

None == [some |-> FALSE, v |-> 0]

Some(x) == [some |-> TRUE, v |-> x]

\* Option<String>
NoneS == [some |-> FALSE, v |-> <<>>]

\* Option<bool>
NoneB == [some |-> FALSE, v |-> FALSE]

unwrap_or(o, d) == IF o.some THEN o.v ELSE d

UpperSeq == <<"A", "B", "C", "D", "E", "F", "G", "H", "I", "J", "K", "L", "M",
              "N", "O", "P", "Q", "R", "S", "T", "U", "V", "W", "X", "Y", "Z">>

LowerSeq == <<"a", "b", "c", "d", "e", "f", "g", "h", "i", "j", "k", "l", "m",
              "n", "o", "p", "q", "r", "s", "t", "u", "v", "w", "x", "y", "z">>

DigitSeq == <<"0", "1", "2", "3", "4", "5", "6", "7", "8", "9">>

LowerChar(c) ==
    IF c \in UpperLetters THEN LowerSeq[CHOOSE k \in 1..26 : UpperSeq[k] = c] ELSE c

\* the TLA+ string a character sequence spells, lower-cased: the key of the
\* ParserInfo tables (name.to_lowercase())
RECURSIVE to_lowercase(_)
to_lowercase(s) ==
    IF s = <<>> THEN "" ELSE LowerChar(Head(s)) \o to_lowercase(Tail(s))

RECURSIVE Str(_)
Str(s) == IF s = <<>> THEN "" ELSE Head(s) \o Str(Tail(s))

DigitVal(c) == (CHOOSE k \in 1..10 : DigitSeq[k] = c) - 1

AllDigits(s) == \A k \in 1..Len(s) : s[k] \in Digits

RECURSIVE DigitsValue(_)
DigitsValue(s) ==
    IF s = <<>> THEN 0 ELSE 10 * DigitsValue(Front(s)) + DigitVal(Last(s))

RECURSIVE Pow10(_)
Pow10(n) == IF n = 0 THEN 1 ELSE 10 * Pow10(n - 1)

\* `x as i32` of an i64.  A numeric token of the model holds at most nine
\* digits unless a compact form (lib.rs 1211, 1228) takes it by slices, so
\* the cast never wraps
AsI32(x) == x

RECURSIVE StripZeros(_)
StripZeros(s) == IF Len(s) > 1 /\ Head(s) = "0" THEN StripZeros(Tail(s)) ELSE s

\* whether the digits b (no leading zero) are at most 2147483647, or
\* 2147483648 for a negative number
FitsI32(b, neg) ==
    \/ Len(b) < 10
    \/ /\ Len(b) = 10
       /\ LET hi == DigitsValue(SubSeq(b, 1, 9))  lo == DigitVal(b[10]) IN
            hi < 214748364 \/ (hi = 214748364 /\ lo <= (IF neg THEN 8 ELSE 7))

\* str::parse::<i32>(): an optional sign, then digits, no overflow
ParseI32(s) ==
    LET body == IF s # <<>> /\ Head(s) \in {"+", "-"} THEN Tail(s) ELSE s
        neg == s # <<>> /\ Head(s) = "-"
        b == StripZeros(body)
    IN  IF body = <<>> \/ ~AllDigits(body) \/ ~FitsI32(b, neg) THEN None
        ELSE IF neg /\ Len(b) = 10 /\ b[10] = "8" /\ DigitsValue(SubSeq(b, 1, 9)) = 214748364
          THEN Some(-2147483647 - 1)
        ELSE Some(IF neg THEN 0 - DigitsValue(b) ELSE DigitsValue(b))

\* Decimal::from_str(s).is_ok() on a token of the tokenizer: digits with at
\* most one point (rust_decimal holds 28 digits, more than any token here)
IsDecimal(s) ==
    /\ s # <<>>
    /\ \A k \in 1..Len(s) : s[k] \in Digits \cup {"."}
    /\ Count(s, ".") <= 1
    /\ \E k \in 1..Len(s) : s[k] \in Digits

\* the position of the first c in s, 0-based (str::find), or None
Find(s, c) ==
    IF Contains(s, c)
      THEN Some((CHOOSE k \in 1..Len(s) : s[k] = c /\ \A j \in 1..(k - 1) : s[j] # c) - 1)
      ELSE None

\* a Decimal is [num, scale]: num / 10^scale, never negative here
to_decimal(s) ==
    LET p == Find(s, ".")
        ds == SelectSeq(s, LAMBDA c : c # ".")
    IN [num |-> DigitsValue(ds), scale |-> IF p.some THEN Len(s) - p.v - 1 ELSE 0]

DecFloor(d) == d.num \div Pow10(d.scale)

\* value % ONE, as a Decimal of the same scale
DecFract(d) == [num |-> d.num % Pow10(d.scale), scale |-> d.scale]

\* s[a..b] of a Rust string (0-based, b exclusive): None stands for the panic
\* of a range that is out of bounds
Slice(s, a, b) ==
    IF a <= b /\ b <= Len(s) THEN [some |-> TRUE, v |-> SubSeq(s, a + 1, b)] ELSE NoneS

-----------------------------------------------------------------------------
(* ParserInfo, lib.rs 379-545.  A table is a sequence of groups of         *)
(* lower-cased words; a word's value is its group's index (parse_info).    *)

JumpWords == {" ", ".", ",", ";", "-", "/", "'", "at", "on", "and", "ad", "m", "t",
              "of", "st", "nd", "rd", "th"}

WeekdayTable == << {"mon", "monday"}, {"tue", "tues", "tuesday"}, {"wed", "wednesday"},
                   {"thu", "thurs", "thursday"}, {"fri", "friday"},
                   {"sat", "saturday"}, {"sun", "sunday"} >>

MonthTable == << {"jan", "january"}, {"feb", "february"}, {"mar", "march"},
                 {"apr", "april"}, {"may"}, {"jun", "june"}, {"jul", "july"},
                 {"aug", "august"}, {"sep", "sept", "september"},
                 {"oct", "october"}, {"nov", "november"}, {"dec", "december"} >>

HmsTable == << {"h", "hour", "hours"}, {"m", "minute", "minutes"},
               {"s", "second", "seconds"} >>

AmpmTable == << {"am", "a"}, {"pm", "p"} >>

UtcZone == {"utc", "gmt", "z"}

PertainWords == {"of"}

\* HashMap::get of a table: the 0-based index of the word's group
Lookup(table, key) ==
    IF \E k \in 1..Len(table) : key \in table[k]
      THEN Some((CHOOSE k \in 1..Len(table) : key \in table[k]) - 1)
      ELSE None

get_jump(name) == to_lowercase(name) \in JumpWords

get_weekday(name) == Lookup(WeekdayTable, to_lowercase(name))

get_month(name) ==
    LET u == Lookup(MonthTable, to_lowercase(name)) IN
    IF u.some THEN Some(u.v + 1) ELSE None

get_hms(name) == Lookup(HmsTable, to_lowercase(name))

get_ampm(name) ==
    LET v == Lookup(AmpmTable, to_lowercase(name)) IN
    IF v.some THEN [some |-> TRUE, v |-> (v.v = 1)] ELSE NoneB

get_pertain(name) == to_lowercase(name) \in PertainWords

get_utczone(name) == to_lowercase(name) \in UtcZone

\* the tzoffset table of ParserInfo::default is empty
get_tzoffset(name) == IF to_lowercase(name) \in UtcZone THEN Some(0) ELSE None

\* ParserInfo::default: year is the clock's year
ParserInfoDefault(now_year) ==
    [dayfirst |-> FALSE, yearfirst |-> FALSE,
     year |-> now_year, century |-> (now_year \div 100) * 100]

\* convertyear_shift with a year exactly 50 years ahead left where it is
convertyear_shift_late(info, y) ==
    IF y > info.year + 50 THEN y - 100
    ELSE IF y < info.year - 50 THEN y + 100
    ELSE y

\* 517-522: the year with the century added, moved to within 50 years of now
convertyear_shift(info, y) ==
    IF y >= info.year + 50 THEN y - 100
    ELSE IF y < info.year - 50 THEN y + 100
    ELSE y

convertyear(info, year, century_specified) ==
    IF year < 100 /\ ~century_specified
      THEN convertyear_shift(info, year + info.century)
      ELSE year

\* validate without the rule of 537-541 for a UTC alias with another offset
validate_first_rule_only(info, res) ==
    IF (res.tzoffset = Some(0) /\ ~res.tzname.some) \/ res.tzname = [some |-> TRUE, v |-> <<"Z">>]
      THEN [res EXCEPT !.tzname = [some |-> TRUE, v |-> <<"U", "T", "C">>],
                       !.tzoffset = Some(0)]
      ELSE res

\* 529-544
validate(info, res) ==
    LET r1 == IF res.year.some
                THEN [res EXCEPT !.year = Some(convertyear(info, res.year.v, res.century_specified))]
                ELSE res
    IN  IF (r1.tzoffset = Some(0) /\ ~r1.tzname.some) \/ r1.tzname = [some |-> TRUE, v |-> <<"Z">>]
          THEN [r1 EXCEPT !.tzname = [some |-> TRUE, v |-> <<"U", "T", "C">>],
                          !.tzoffset = Some(0)]
        ELSE IF r1.tzoffset # Some(0) /\ r1.tzname.some /\ get_utczone(r1.tzname.v)
          THEN [r1 EXCEPT !.tzoffset = Some(0)]
        ELSE r1

\* days_in_month, lib.rs 547-565: [ok, v]; ~ok is Err(InvalidMonth)
leap_year(year) == IF year % 4 = 0 THEN year % 400 # 0 ELSE FALSE

\* days_in_month that gives every month number 31 days and never fails
days_in_month_unchecked(year, month) == [ok |-> TRUE, v |-> 31]

days_in_month(year, month) ==
    IF month = 2 THEN [ok |-> TRUE, v |-> IF leap_year(year) THEN 29 ELSE 28]
    ELSE IF month \in {1, 3, 5, 7, 8, 10, 12} THEN [ok |-> TRUE, v |-> 31]
    ELSE IF month \in {4, 6, 9, 11} THEN [ok |-> TRUE, v |-> 30]
    ELSE [ok |-> FALSE, v |-> 0]

-----------------------------------------------------------------------------
(* YMD, lib.rs 578-815.  values is _ymd; the indices are 0-based.          *)

YMDDefault ==
    [values |-> <<>>, century_specified |-> FALSE,
     dstridx |-> None, mstridx |-> None, ystridx |-> None]

\* _ymd[i]
At(ymd, i) == ymd.values[i + 1]

\* [panic, v]: panic is the unwrap of days_in_month's Err
could_be_day(ymd, val) ==
    IF ymd.dstridx.some THEN [panic |-> FALSE, v |-> FALSE]
    ELSE IF ~ymd.mstridx.some THEN [panic |-> FALSE, v |-> (1 <= val /\ val <= 31)]
    ELSE LET month == At(ymd, ymd.mstridx.v)
             dim == IF ~ymd.ystridx.some THEN days_in_month(2000, month)
                    ELSE days_in_month(At(ymd, ymd.ystridx.v), month)
         IN  IF ~dim.ok THEN [panic |-> TRUE, v |-> FALSE]
             ELSE [panic |-> FALSE, v |-> (1 <= val /\ val <= dim.v)]

\* the label after the two forcing rules of append (lib.rs 619-646), or
\* "Invalid" where append returns its Invalid-label error
append_label(val, token, label) ==
    LET l1 == IF IsDecimal(token) /\ Len(token) > 2
                THEN (IF label \in {"None", "Year"} THEN "Year" ELSE "Invalid")
                ELSE label
    IN  IF l1 = "Invalid" THEN "Invalid"
        ELSE IF val > 100
          THEN (IF l1 \in {"None", "Year"} THEN "Year" ELSE "Invalid")
        ELSE l1

\* YMD::append: [ymd, err]; the value is pushed unless the label is invalid,
\* and the index of a label that is already set is left alone
append(ymd, val, token, label) ==
    LET cs == ymd.century_specified \/ (IsDecimal(token) /\ Len(token) > 2) \/ val > 100
        lab == append_label(val, token, label)
        y0 == [ymd EXCEPT !.century_specified = cs]
        y1 == [y0 EXCEPT !.values = Append(ymd.values, val)]
        idx == Some(Len(ymd.values))
    IN  IF lab = "Invalid" THEN [ymd |-> y0, err |-> TRUE]
        ELSE IF lab = "Month" THEN
            IF ymd.mstridx.some THEN [ymd |-> y1, err |-> TRUE]
            ELSE [ymd |-> [y1 EXCEPT !.mstridx = idx], err |-> FALSE]
        ELSE IF lab = "Day" THEN
            IF ymd.dstridx.some THEN [ymd |-> y1, err |-> TRUE]
            ELSE [ymd |-> [y1 EXCEPT !.dstridx = idx], err |-> FALSE]
        ELSE IF lab = "Year" THEN
            IF ymd.ystridx.some THEN [ymd |-> y1, err |-> TRUE]
            ELSE [ymd |-> [y1 EXCEPT !.ystridx = idx], err |-> FALSE]
        ELSE [ymd |-> y1, err |-> TRUE]

\* the outcome of a resolution: err is "" or the ParseInternalError
Resolved(y, m, d) == [err |-> "", y |-> y, m |-> m, d |-> d]

ResolveErr(e) == [err |-> e, y |-> None, m |-> None, d |-> None]

StridsLen(strids) ==
    Cardinality({k \in {"Year", "Month", "Day"} : strids[k].some})

\* resolve_from_stridxs that gives the missing label position 0 whether or not
\* that position is taken
resolve_from_stridxs_first(ymd, strids) ==
    LET missing_key == IF ~strids["Year"].some THEN "Year"
                       ELSE IF ~strids["Month"].some THEN "Month" ELSE "Day"
        s1 == IF Len(ymd.values) = 3 /\ StridsLen(strids) = 2
                THEN [strids EXCEPT ![missing_key] = Some(0)]
                ELSE strids
        get(k) == IF s1[k].some THEN Some(At(ymd, s1[k].v)) ELSE None
    IN  IF Len(ymd.values) # StridsLen(s1) THEN ResolveErr("YMDEarlyResolve")
        ELSE Resolved(get("Year"), get("Month"), get("Day"))

\* strids is [Year, Month, Day], each an Option index
resolve_from_stridxs(ymd, strids) ==
    LET vals == {strids[k].v : k \in {k \in {"Year", "Month", "Day"} : strids[k].some}}
        missing_key == IF ~strids["Year"].some THEN "Year"
                       ELSE IF ~strids["Month"].some THEN "Month" ELSE "Day"
        missing_val == IF 0 \notin vals THEN 0 ELSE IF 1 \notin vals THEN 1 ELSE 2
        s1 == IF Len(ymd.values) = 3 /\ StridsLen(strids) = 2
                THEN [strids EXCEPT ![missing_key] = Some(missing_val)]
                ELSE strids
        get(k) == IF s1[k].some THEN Some(At(ymd, s1[k].v)) ELSE None
    IN  IF Len(ymd.values) # StridsLen(s1) THEN ResolveErr("YMDEarlyResolve")
        ELSE Resolved(get("Year"), get("Month"), get("Day"))

\* resolve_unlabelled3 whose leading-year order never takes the day first
resolve_unlabelled3_month_first(ymd, yearfirst, dayfirst) ==
    LET v0 == At(ymd, 0)  v1 == At(ymd, 1)  v2 == At(ymd, 2) IN
    IF v0 > 31 \/ ymd.ystridx = Some(0) \/ (yearfirst /\ v1 <= 12 /\ v2 <= 31)
      THEN Resolved(Some(v0), Some(v1), Some(v2))
    ELSE IF v0 > 12 \/ (dayfirst /\ v1 <= 12)
      THEN Resolved(Some(v2), Some(v1), Some(v0))
    ELSE Resolved(Some(v2), Some(v0), Some(v1))

\* 799-811: three values, none labelled as the month
resolve_unlabelled3(ymd, yearfirst, dayfirst) ==
    LET v0 == At(ymd, 0)  v1 == At(ymd, 1)  v2 == At(ymd, 2) IN
    IF v0 > 31 \/ ymd.ystridx = Some(0) \/ (yearfirst /\ v1 <= 12 /\ v2 <= 31)
      THEN (IF dayfirst /\ v2 <= 12
              THEN Resolved(Some(v0), Some(v2), Some(v1))
              ELSE Resolved(Some(v0), Some(v1), Some(v2)))
    ELSE IF v0 > 12 \/ (dayfirst /\ v1 <= 12)
      THEN Resolved(Some(v2), Some(v1), Some(v0))
    ELSE Resolved(Some(v2), Some(v0), Some(v1))

\* the test of 749-753 that never finds too many values
MoreThanThree_never(len_ymd) == FALSE

\* 749: the list holds more values than a date has
MoreThanThree(len_ymd) == len_ymd > 3

resolve_ymd(ymd, yearfirst, dayfirst) ==
    LET len_ymd == Len(ymd.values)
        strids == [Year |-> ymd.ystridx, Month |-> ymd.mstridx, Day |-> ymd.dstridx]
        n == StridsLen(strids)
        m == ymd.mstridx
    IN  IF (len_ymd = n /\ n > 0) \/ (len_ymd = 3 /\ n = 2)
          THEN resolve_from_stridxs(ymd, strids)
        ELSE IF MoreThanThree(len_ymd) THEN ResolveErr("ValueError")
        ELSE IF len_ymd \in {1, 2} /\ m.some THEN
            LET other == IF len_ymd = 1 THEN At(ymd, 0) ELSE At(ymd, 1 - m.v) IN
            IF other > 31 THEN Resolved(Some(other), Some(At(ymd, m.v)), None)
            ELSE Resolved(None, Some(At(ymd, m.v)), Some(other))
        ELSE IF len_ymd = 2 THEN
            LET v0 == At(ymd, 0)  v1 == At(ymd, 1) IN
            IF v0 > 31 THEN Resolved(Some(v0), Some(v1), None)
            ELSE IF v1 > 31 THEN Resolved(Some(v1), Some(v0), None)
            ELSE IF dayfirst /\ v1 <= 12 THEN Resolved(None, Some(v1), Some(v0))
            ELSE Resolved(None, Some(v0), Some(v1))
        ELSE IF len_ymd = 3 /\ m = Some(0) THEN
            LET v0 == At(ymd, 0)  v1 == At(ymd, 1)  v2 == At(ymd, 2) IN
            IF v1 > 31 THEN Resolved(Some(v1), Some(v0), Some(v2))
            ELSE Resolved(Some(v2), Some(v0), Some(v1))
        ELSE IF len_ymd = 3 /\ m = Some(1) THEN
            LET v0 == At(ymd, 0)  v1 == At(ymd, 1)  v2 == At(ymd, 2) IN
            IF v0 > 31 \/ (yearfirst /\ v2 <= 31) THEN Resolved(Some(v0), Some(v1), Some(v2))
            ELSE Resolved(Some(v2), Some(v1), Some(v0))
        ELSE IF len_ymd = 3 /\ m = Some(2) THEN
            LET v0 == At(ymd, 0)  v1 == At(ymd, 1)  v2 == At(ymd, 2) IN
            IF v1 > 31 THEN Resolved(Some(v2), Some(v1), Some(v0))
            ELSE Resolved(Some(v0), Some(v2), Some(v1))
        ELSE IF len_ymd = 3 THEN resolve_unlabelled3(ymd, yearfirst, dayfirst)
        ELSE Resolved(None, None, None)

-----------------------------------------------------------------------------
(* ParsingResult and the helpers of Parser, lib.rs 817-833, 1083-1117,     *)
(* 1322-1442                                                               *)

ParsingResultDefault ==
    [year |-> None, month |-> None, day |-> None, weekday |-> None,
     hour |-> None, minute |-> None, second |-> None, microsecond |-> None,
     tzname |-> NoneS, tzoffset |-> None, ampm |-> NoneB,
     century_specified |-> FALSE]

could_be_tzname(hour, tzname, tzoffset, token) ==
    /\ hour.some /\ ~tzname.some /\ ~tzoffset.some
    /\ Len(token) <= 5
    /\ \A k \in 1..Len(token) : token[k] \in UpperLetters

\* ampm_valid: "" for Ok(_), or the error it returns
ampm_valid(hour, ampm, fuzzy) ==
    IF fuzzy /\ ampm = [some |-> TRUE, v |-> TRUE] THEN ""
    ELSE IF ~hour.some THEN (IF fuzzy THEN "" ELSE "AmPmWithoutHour")
    ELSE IF ~(0 <= hour.v /\ hour.v <= 12) THEN (IF fuzzy THEN "" ELSE "InvalidHour")
    ELSE ""

\* adjust_ampm that adds twelve hours for every pm, noon included
adjust_ampm_always_adding(hour, ampm) ==
    IF ampm THEN hour + 12
    ELSE IF hour = 12 THEN 0
    ELSE hour

adjust_ampm(hour, ampm) ==
    IF hour < 12 /\ ampm THEN hour + 12
    ELSE IF hour = 12 /\ ~ampm THEN 0
    ELSE hour

\* ljust that cuts s to chars characters and never fills it up
ljust_unfilled(s, chars, replace) ==
    IF Len(s) >= chars THEN SubSeq(s, 1, chars) ELSE s

ljust(s, chars, replace) ==
    IF Len(s) >= chars THEN SubSeq(s, 1, chars)
    ELSE s \o [k \in 1..(chars - Len(s)) |-> replace]

\* parsems: [ok, sec, micro]; ~ok is Err(InvalidInteger)
parsems(seconds_str) ==
    LET bad == [ok |-> FALSE, sec |-> 0, micro |-> 0] IN
    IF Contains(seconds_str, ".") THEN
        LET p == Find(seconds_str, ".").v
            i == SubSeq(seconds_str, 1, p)
            rest == SubSeq(seconds_str, p + 2, Len(seconds_str))
            q == Find(rest, ".")
            f == IF q.some THEN SubSeq(rest, 1, q.v) ELSE rest
            i_parse == ParseI32(i)
            f_parse == ParseI32(ljust(f, 6, "0"))
        IN  IF ~i_parse.some \/ ~f_parse.some THEN bad
            ELSE [ok |-> TRUE, sec |-> i_parse.v, micro |-> f_parse.v]
    ELSE LET v == ParseI32(seconds_str) IN
         IF v.some THEN [ok |-> TRUE, sec |-> v.v, micro |-> 0] ELSE bad

\* parse_min_sec: [minute, second] of a Decimal
parse_min_sec(value) ==
    LET sec_remainder == DecFract(value) IN
    [minute |-> AsI32(DecFloor(value)),
     second |-> IF sec_remainder.num # 0
                  THEN Some(AsI32((60 * sec_remainder.num) \div Pow10(value.scale)))
                  ELSE None]

close_to_integer(value) == DecFract(value).num = 0

\* [panic, some, v]: panic is the tokens[idx - 2] of idx = 1
find_hms_index(idx, tokens, allow_jump) ==
    LET len_l == Len(tokens)
        T(k) == tokens[k + 1]
        r(p, s, v) == [panic |-> p, some |-> s, v |-> v]
    IN  IF idx + 1 < len_l /\ get_hms(T(idx + 1)).some THEN r(FALSE, TRUE, idx + 1)
        ELSE IF allow_jump /\ idx + 2 < len_l /\ T(idx + 1) = <<" ">>
                /\ get_hms(T(idx + 2)).some THEN r(FALSE, TRUE, idx + 2)
        ELSE IF idx > 0 /\ get_hms(T(idx - 1)).some THEN r(FALSE, TRUE, idx - 1)
        ELSE IF len_l > 0 /\ idx > 0 /\ idx = len_l - 1 /\ T(idx - 1) = <<" ">>
          THEN (IF idx < 2 THEN r(TRUE, FALSE, 0)
                ELSE IF get_hms(T(idx - 2)).some THEN r(FALSE, TRUE, idx - 2)
                ELSE r(FALSE, FALSE, 0))
        ELSE r(FALSE, FALSE, 0)

\* parse_hms with hms_index = Some(hms_index): [idx, hms]
parse_hms(idx, tokens, hms_index) ==
    LET h == get_hms(tokens[hms_index + 1]) IN
    IF hms_index > idx THEN [idx |-> hms_index, hms |-> h]
    ELSE [idx |-> idx, hms |-> IF h.some THEN Some(h.v + 1) ELSE None]

\* assign_hms: [panic, res]; panic is the unwrap of parsems' Err
assign_hms(res, value_repr, hms) ==
    LET value == to_decimal(value_repr) IN
    IF hms = 0 THEN
        LET r1 == [res EXCEPT !.hour = Some(AsI32(DecFloor(value)))] IN
        [panic |-> FALSE,
         res |-> IF ~close_to_integer(value)
                   THEN [r1 EXCEPT !.minute =
                            Some(AsI32((60 * DecFract(value).num) \div Pow10(value.scale)))]
                   ELSE r1]
    ELSE IF hms = 1 THEN
        LET ms == parse_min_sec(value) IN
        [panic |-> FALSE, res |-> [res EXCEPT !.minute = Some(ms.minute), !.second = ms.second]]
    ELSE IF hms = 2 THEN
        LET t == parsems(value_repr) IN
        IF ~t.ok THEN [panic |-> TRUE, res |-> res]
        ELSE [panic |-> FALSE,
              res |-> [res EXCEPT !.second = Some(t.sec), !.microsecond = Some(t.micro)]]
    ELSE [panic |-> FALSE, res |-> res]

-----------------------------------------------------------------------------
(* Parser::parse_numeric_token, lib.rs 1182-1320.  The outcome is          *)
(* [st, idx, ymd, res, e]: st is "ok", "err" (e the ParseInternalError) or *)
(* "panic".                                                                *)

NumOk(idx, ymd, res) == [st |-> "ok", idx |-> idx, ymd |-> ymd, res |-> res, e |-> ""]

NumErr(e, idx, ymd, res) == [st |-> "err", idx |-> idx, ymd |-> ymd, res |-> res, e |-> e]

NumPanic(idx, ymd, res) == [st |-> "panic", idx |-> idx, ymd |-> ymd, res |-> res, e |-> ""]

\* s[a..b].parse::<i32>() of a slice that is in range
ParseSlice(s, a, b) == ParseI32(SubSeq(s, a + 1, b))

\* 1204-1210: HH[MM] after a full date
numeric_hhmm(s, idx, ymd, res) ==
    LET r1 == [res EXCEPT !.hour = ParseSlice(s, 0, 2)] IN
    IF Len(s) = 4 THEN
        LET m == ParseSlice(s, 2, 4) IN
        IF m.some THEN NumOk(idx, ymd, [r1 EXCEPT !.minute = Some(m.v)])
        ELSE NumErr("InvalidInteger", idx, ymd, r1)
    ELSE NumOk(idx, ymd, r1)

\* 1212-1227: YYMMDD or HHMMSS[.ss]
numeric_compact6(s, idx, ymd, res) ==
    IF Len(ymd.values) = 0 /\ ~Find(s, ".").some THEN
        LET v1 == ParseSlice(s, 0, 2)  v2 == ParseSlice(s, 2, 4)  v3 == ParseSlice(s, 4, 6) IN
        IF ~v1.some THEN NumPanic(idx, ymd, res)
        ELSE LET y1 == append(ymd, v1.v, SubSeq(s, 1, 2), "None").ymd IN
        IF ~v2.some THEN NumPanic(idx, y1, res)
        ELSE LET y2 == append(y1, v2.v, SubSeq(s, 3, 4), "None").ymd IN
        IF ~v3.some THEN NumPanic(idx, y2, res)
        ELSE NumOk(idx, append(y2, v3.v, SubSeq(s, 5, 6), "None").ymd, res)
    ELSE
        LET r1 == [res EXCEPT !.hour = ParseSlice(s, 0, 2), !.minute = ParseSlice(s, 2, 4)]
            t == parsems(SubSeq(s, 5, Len(s)))
        IN  IF ~t.ok THEN NumErr("InvalidInteger", idx, ymd, r1)
            ELSE NumOk(idx, ymd, [r1 EXCEPT !.second = Some(t.sec),
                                            !.microsecond = Some(t.micro)])

\* 1229-1242: YYYYMMDD[HHMM[SS]]
numeric_compact8(s, idx, ymd, res) ==
    LET v1 == ParseSlice(s, 0, 4)  v2 == ParseSlice(s, 4, 6)  v3 == ParseSlice(s, 6, 8) IN
    IF ~v1.some THEN NumPanic(idx, ymd, res)
    ELSE LET y1 == append(ymd, v1.v, SubSeq(s, 1, 4), "Year").ymd IN
    IF ~v2.some THEN NumPanic(idx, y1, res)
    ELSE LET y2 == append(y1, v2.v, SubSeq(s, 5, 6), "None").ymd IN
    IF ~v3.some THEN NumPanic(idx, y2, res)
    ELSE LET y3 == append(y2, v3.v, SubSeq(s, 7, 8), "None").ymd IN
    IF Len(s) > 8 THEN
        LET h == ParseSlice(s, 8, 10)  m == ParseSlice(s, 10, 12) IN
        IF ~h.some THEN NumErr("InvalidInteger", idx, y3, res)
        ELSE LET r1 == [res EXCEPT !.hour = Some(h.v)] IN
        IF ~m.some THEN NumErr("InvalidInteger", idx, y3, r1)
        ELSE LET r2 == [r1 EXCEPT !.minute = Some(m.v)] IN
        IF Len(s) > 12 THEN
            LET sec == ParseSlice(s, 12, Len(s)) IN
            IF ~sec.some THEN NumErr("InvalidInteger", idx, y3, r2)
            ELSE NumOk(idx, y3, [r2 EXCEPT !.second = Some(sec.v)])
        ELSE NumOk(idx, y3, r2)
    ELSE NumOk(idx, y3, res)

\* 1244-1250: HH[ ]h or MM[ ]m or SS[.ss][ ]s
numeric_hms(toks, idx, ymd, res, hms_idx) ==
    LET ph == parse_hms(idx, toks, hms_idx) IN
    IF ph.hms.some THEN
        LET a == assign_hms(res, toks[idx + 1], ph.hms.v) IN
        IF a.panic THEN NumPanic(idx, ymd, res) ELSE NumOk(ph.idx, ymd, a.res)
    ELSE NumOk(ph.idx, ymd, res)

\* 1252-1269: HH:MM[:SS[.ss]]
numeric_colon(toks, idx, ymd, res) ==
    LET len_l == Len(toks)
        T(k) == toks[k + 1]
        r1 == [res EXCEPT !.hour = Some(AsI32(DecFloor(to_decimal(T(idx)))))]
    IN  IF ~IsDecimal(T(idx + 2)) THEN NumPanic(idx, ymd, r1)
        ELSE LET min_sec == parse_min_sec(to_decimal(T(idx + 2)))
                 r2 == [r1 EXCEPT !.minute = Some(min_sec.minute), !.second = min_sec.second]
             IN  IF idx + 4 < len_l /\ T(idx + 3) = <<":">> THEN
                     LET ms == parsems(T(idx + 4)) IN
                     IF ~ms.ok THEN NumPanic(idx, ymd, r2)
                     ELSE NumOk(idx + 4, ymd,
                                [r2 EXCEPT !.second = Some(ms.sec),
                                           !.microsecond = Some(ms.micro)])
                 ELSE NumOk(idx + 2, ymd, r2)

\* 1273-1297: a date separator follows
numeric_sep(toks, idx, ymd, res) ==
    LET len_l == Len(toks)
        T(k) == toks[k + 1]
        sep == T(idx + 1)
        v0 == ParseI32(T(idx))
    IN  IF ~v0.some THEN NumPanic(idx, ymd, res)
        ELSE LET y1 == append(ymd, v0.v, T(idx), "None").ymd IN
        IF idx + 2 < len_l /\ ~get_jump(T(idx + 2)) THEN
            LET val == ParseI32(T(idx + 2))
                mon == get_month(T(idx + 2))
                y2 == IF val.some THEN append(y1, val.v, T(idx + 2), "None").ymd
                      ELSE IF mon.some THEN append(y1, mon.v, T(idx + 2), "Month").ymd
                      ELSE y1
            IN  IF idx + 3 < len_l /\ T(idx + 3) = sep THEN
                    IF idx + 4 >= len_l THEN NumPanic(idx, y2, res)
                    ELSE LET mon4 == get_month(T(idx + 4))
                             val4 == ParseI32(T(idx + 4))
                         IN  IF mon4.some
                               THEN NumOk(idx + 4, append(y2, mon4.v, T(idx + 4), "Month").ymd, res)
                             ELSE IF val4.some
                               THEN NumOk(idx + 4, append(y2, val4.v, T(idx + 4), "None").ymd, res)
                             ELSE NumPanic(idx, y2, res)
                ELSE NumOk(idx + 2, y2, res)
        ELSE NumOk(idx + 1, y1, res)

\* 1298-1305: the end of the input or a jump word follows
numeric_jump(toks, idx, ymd, res) ==
    LET len_l == Len(toks)
        T(k) == toks[k + 1]
        value == to_decimal(T(idx))
    IN  IF idx + 2 < len_l /\ get_ampm(T(idx + 2)).some
          THEN NumOk(idx, ymd,
                     [res EXCEPT !.hour = Some(adjust_ampm(AsI32(DecFloor(value)),
                                                           get_ampm(T(idx + 2)).v))])
          ELSE NumOk(idx, append(ymd, AsI32(DecFloor(value)), T(idx), "None").ymd, res)

parse_numeric_token(toks, idx, ymd, res, fuzzy) ==
    LET len_l == Len(toks)
        T(k) == toks[k + 1]
        value_repr == T(idx)
        value == to_decimal(value_repr)
        len_li == Len(value_repr)
    IN  IF Len(ymd.values) = 3 /\ len_li \in {2, 4} /\ ~res.hour.some
           /\ (idx + 1 >= len_l
               \/ (T(idx + 1) # <<":">> /\ ~get_hms(T(idx + 1)).some))
          THEN numeric_hhmm(value_repr, idx, ymd, res)
        ELSE IF len_li = 6 \/ (len_li > 6 /\ Find(value_repr, ".") = Some(6))
          THEN numeric_compact6(value_repr, idx, ymd, res)
        ELSE IF len_li \in {8, 12, 14}
          THEN numeric_compact8(value_repr, idx, ymd, res)
        ELSE LET hms_idx == find_hms_index(idx, toks, TRUE) IN
        IF hms_idx.panic THEN NumPanic(idx, ymd, res)
        ELSE IF hms_idx.some THEN numeric_hms(toks, idx, ymd, res, hms_idx.v)
        ELSE IF idx + 2 < len_l /\ T(idx + 1) = <<":">>
          THEN numeric_colon(toks, idx, ymd, res)
        ELSE IF idx + 1 < len_l /\ T(idx + 1) \in {<<"-">>, <<"/">>, <<".">>}
          THEN numeric_sep(toks, idx, ymd, res)
        ELSE IF idx + 1 >= len_l \/ get_jump(T(idx + 1))
          THEN numeric_jump(toks, idx, ymd, res)
        ELSE IF get_ampm(T(idx + 1)).some /\ value.num < 24 * Pow10(value.scale)
          THEN NumOk(idx + 1, ymd,
                     [res EXCEPT !.hour = Some(adjust_ampm(AsI32(DecFloor(value)),
                                                           get_ampm(T(idx + 1)).v))])
        ELSE LET cbd == could_be_day(ymd, AsI32(DecFloor(value))) IN
        IF cbd.panic THEN NumPanic(idx, ymd, res)
        ELSE IF cbd.v
          THEN NumOk(idx, append(ymd, AsI32(DecFloor(value)), value_repr, "None").ymd, res)
        ELSE IF ~fuzzy THEN NumErr("ValueError", idx, ymd, res)
        ELSE NumOk(idx, ymd, res)

-----------------------------------------------------------------------------
(* The token loop of Parser::parse_with_tokens, lib.rs 949-1064.  w holds  *)
(* the locals [l, i, res, ymd, skipped_idxs]; one iteration gives          *)
(* [st, w, e]: st is "ok", "err" (e the ParseError) or "panic".            *)

NoError == [kind |-> "", tok |-> <<>>]

Error(kind) == [kind |-> kind, tok |-> <<>>]

UnrecognizedToken(tok) == [kind |-> "UnrecognizedToken", tok |-> tok]

\* ParseError::InternalError(e), by the From impl of lib.rs 146-150
InternalError(e) == [kind |-> "InternalError", tok |-> <<e>>]

StepOk(w) == [st |-> "ok", w |-> w, e |-> NoError]

StepErr(w, e) == [st |-> "err", w |-> w, e |-> e]

StepPanic(w) == [st |-> "panic", w |-> w, e |-> NoError]

\* l[k]
Tok(w, k) == w.l[k + 1]

\* which arm of the if-chain of lib.rs 952-1061 takes the token l[i]
Branch(w) ==
    LET t == Tok(w, w.i) IN
    IF IsDecimal(t) THEN "numeric"
    ELSE IF get_weekday(t).some THEN "weekday"
    ELSE IF get_month(t).some THEN "month"
    ELSE IF get_ampm(t).some THEN "ampm"
    ELSE IF could_be_tzname(w.res.hour, w.res.tzname, w.res.tzoffset, t) THEN "tzname"
    ELSE IF w.res.hour.some /\ t \in {<<"+">>, <<"-">>} THEN "sign"
    ELSE "other"

\* 953
walk_numeric(w, fuzzy) ==
    Let(parse_numeric_token(w.l, w.i, w.ymd, w.res, fuzzy),
        LAMBDA n :
          Let([w EXCEPT !.i = n.idx, !.ymd = n.ymd, !.res = n.res],
              LAMBDA w1 :
                IF n.st = "panic" THEN StepPanic(w1)
                ELSE IF n.st = "err" THEN StepErr(w1, InternalError(n.e))
                ELSE StepOk(w1)))

\* 956-984
walk_month(w, info) ==
    LET len_l == Len(w.l)
        i == w.i
        y1 == append(w.ymd, get_month(Tok(w, i)).v, Tok(w, i), "Month").ymd
        w1 == [w EXCEPT !.ymd = y1]
    IN  IF i + 1 < len_l THEN
            IF Tok(w, i + 1) \in {<<"-">>, <<"/">>} THEN
                \* Jan-01[-99]
                LET sep == Tok(w, i + 1) IN
                IF i + 2 >= len_l THEN StepPanic(w1)
                ELSE LET v2 == ParseI32(Tok(w, i + 2)) IN
                IF ~v2.some THEN StepPanic(w1)
                ELSE LET y2 == append(y1, v2.v, Tok(w, i + 2), "None").ymd IN
                IF i + 3 < len_l /\ Tok(w, i + 3) = sep THEN
                    IF i + 4 >= len_l THEN StepPanic([w1 EXCEPT !.ymd = y2])
                    ELSE LET v4 == ParseI32(Tok(w, i + 4)) IN
                    IF ~v4.some THEN StepPanic([w1 EXCEPT !.ymd = y2])
                    ELSE StepOk([w1 EXCEPT !.ymd = append(y2, v4.v, Tok(w, i + 4), "None").ymd,
                                           !.i = i + 4])
                ELSE StepOk([w1 EXCEPT !.ymd = y2, !.i = i + 2])
            ELSE IF i + 4 < len_l /\ Tok(w, i + 1) = Tok(w, i + 3)
                    /\ Tok(w, i + 3) = <<" ">> /\ get_pertain(Tok(w, i + 2)) THEN
                \* Jan of 01
                LET value == ParseI32(Tok(w, i + 4)) IN
                IF value.some
                  THEN StepOk([w1 EXCEPT
                                 !.ymd = append(y1, convertyear(info, value.v, FALSE),
                                                Tok(w, i + 4), "Year").ymd,
                                 !.i = i + 4])
                  ELSE StepOk([w1 EXCEPT !.i = i + 4])
            ELSE StepOk(w1)
        ELSE StepOk(w1)

\* 985-993
walk_ampm(w, fuzzy) ==
    LET value == get_ampm(Tok(w, w.i)).v
        is_ampm == ampm_valid(w.res.hour, w.res.ampm, fuzzy)
    IN  IF is_ampm = "" THEN
            IF ~w.res.hour.some THEN StepPanic(w)
            ELSE StepOk([w EXCEPT !.res.hour = Some(adjust_ampm(w.res.hour.v, value)),
                                  !.res.ampm = [some |-> TRUE, v |-> value]])
        ELSE IF fuzzy THEN StepOk([w EXCEPT !.skipped_idxs = Append(w.skipped_idxs, w.i)])
        ELSE StepOk(w)

\* 1006-1010: the sign written back into l[i + 1]
tzname_sign(sign) == IF sign = <<"+">> THEN <<"-">> ELSE <<"-">>

\* 994-1019
walk_tzname(w) ==
    LET len_l == Len(w.l)
        i == w.i
        tzname == Tok(w, i)
        w1 == [w EXCEPT !.res.tzname = [some |-> TRUE, v |-> tzname],
                        !.res.tzoffset = get_tzoffset(tzname)]
    IN  IF i + 1 < len_l /\ Tok(w, i + 1) \in {<<"+">>, <<"-">>} THEN
            \* GMT+3
            LET w2 == [w1 EXCEPT !.l[i + 2] = tzname_sign(Tok(w, i + 1)),
                                 !.res.tzoffset = None]
            IN  StepOk(IF get_utczone(tzname) THEN [w2 EXCEPT !.res.tzname = NoneS] ELSE w2)
        ELSE StepOk(w1)

\* 1028-1041: [panic, hour, min, i]
sign_offset(w) ==
    LET len_l == Len(w.l)
        i == w.i
        len_li == Len(Tok(w, i))
        bad == [panic |-> TRUE, hour |-> 0, min |-> 0, i |-> i]
    IN  IF len_li = 4 THEN
            \* -0300
            IF i + 1 >= len_l \/ Len(Tok(w, i + 1)) < 4 THEN bad
            ELSE LET h == ParseSlice(Tok(w, i + 1), 0, 2)
                     m == ParseSlice(Tok(w, i + 1), 2, 4)
                 IN  IF ~h.some \/ ~m.some THEN bad
                     ELSE [panic |-> FALSE, hour |-> h.v, min |-> m.v, i |-> i]
        ELSE IF i + 2 < len_l /\ Tok(w, i + 2) = <<":">> THEN
            \* -03:00
            IF i + 3 >= len_l THEN bad
            ELSE LET h == ParseI32(Tok(w, i + 1))
                     m == ParseI32(Tok(w, i + 3))
                 IN  IF ~h.some \/ ~m.some THEN bad
                     ELSE [panic |-> FALSE, hour |-> h.v, min |-> m.v, i |-> i + 2]
        ELSE IF len_li <= 2 THEN
            \* -[0]3
            IF i + 1 >= len_l \/ Len(Tok(w, i + 1)) < 2 THEN bad
            ELSE LET h == ParseSlice(Tok(w, i + 1), 0, 2) IN
                 IF ~h.some THEN bad
                 ELSE [panic |-> FALSE, hour |-> h.v, min |-> 0, i |-> i]
        ELSE bad

\* 1020-1056
walk_sign(w) ==
    LET len_l == Len(w.l)
        signal == IF Tok(w, w.i) = <<"+">> THEN 1 ELSE -1
        o == sign_offset(w)
    IN  IF o.panic THEN StepPanic(w)
        ELSE LET i == o.i
                 w1 == [w EXCEPT !.i = i,
                                 !.res.tzoffset = Some(signal * (o.hour * 3600 + o.min * 60))]
             IN  IF i + 5 < len_l /\ get_jump(Tok(w, i + 2)) /\ Tok(w, i + 3) = <<"(">>
                    /\ Tok(w, i + 5) = <<")">> /\ 3 <= Len(Tok(w, i + 4))
                    /\ could_be_tzname(w.res.hour, w.res.tzname, None, Tok(w, i + 4))
                   THEN \* (GMT)
                        StepOk([w1 EXCEPT !.res.tzname = [some |-> TRUE, v |-> Tok(w, i + 4)],
                                          !.i = i + 5])
                   ELSE StepOk([w1 EXCEPT !.i = i + 1])

\* 1057-1061
\* walk_other that passes over a jump word without recording its index
walk_other_forgetful(w, fuzzy) ==
    IF ~get_jump(Tok(w, w.i)) \/ fuzzy
      THEN StepErr(w, UnrecognizedToken(Tok(w, w.i)))
      ELSE StepOk(w)

\* walk_other whose jump word leaves the loop on the same token: it takes back
\* the i += 1 of line 1063
walk_other_staying(w, fuzzy) ==
    IF ~get_jump(Tok(w, w.i)) \/ fuzzy
      THEN StepErr(w, UnrecognizedToken(Tok(w, w.i)))
      ELSE StepOk([w EXCEPT !.i = w.i - 1])

walk_other(w, fuzzy) ==
    IF ~get_jump(Tok(w, w.i)) \/ fuzzy
      THEN StepErr(w, UnrecognizedToken(Tok(w, w.i)))
      ELSE StepOk([w EXCEPT !.skipped_idxs = Append(w.skipped_idxs, w.i)])

\* one iteration of the while loop, with the i += 1 of line 1063
walk_step(w, fuzzy, info) ==
    Let(Let(Branch(w),
            LAMBDA b :
              CASE b = "numeric" -> walk_numeric(w, fuzzy)
                [] b = "weekday" ->
                     StepOk([w EXCEPT !.res.weekday = get_weekday(Tok(w, w.i))])
                [] b = "month" -> walk_month(w, info)
                [] b = "ampm" -> walk_ampm(w, fuzzy)
                [] b = "tzname" -> walk_tzname(w)
                [] b = "sign" -> walk_sign(w)
                [] OTHER -> walk_other(w, fuzzy)),
        LAMBDA s : IF s.st = "ok" THEN [s EXCEPT !.w.i = s.w.i + 1] ELSE s)

-----------------------------------------------------------------------------
(* The calendar the assembler builds on (chrono) and the weekday module.   *)

\* the Gregorian calendar of chrono's NaiveDate
GregorianLeap(y) == y % 4 = 0 /\ (y % 100 # 0 \/ y % 400 = 0)

GregorianDays(y, m) ==
    IF m = 2 THEN (IF GregorianLeap(y) THEN 29 ELSE 28)
    ELSE IF m \in {4, 6, 9, 11} THEN 30 ELSE 31

ValidDate(y, m, d) == m \in 1..12 /\ d >= 1 /\ d <= GregorianDays(y, m)

\* NaiveDate::from_ymd: [panic, d]; it panics on a date that does not exist
from_ymd(y, m, d) ==
    [panic |-> ~ValidDate(y, m, d), d |-> [year |-> y, month |-> m, day |-> d]]

NextDay(d) ==
    IF d.day < GregorianDays(d.year, d.month) THEN [d EXCEPT !.day = d.day + 1]
    ELSE IF d.month < 12 THEN [d EXCEPT !.month = d.month + 1, !.day = 1]
    ELSE [year |-> d.year + 1, month |-> 1, day |-> 1]

PrevDay(d) ==
    IF d.day > 1 THEN [d EXCEPT !.day = d.day - 1]
    ELSE IF d.month > 1
      THEN [d EXCEPT !.month = d.month - 1, !.day = GregorianDays(d.year, d.month - 1)]
    ELSE [year |-> d.year - 1, month |-> 12, day |-> 31]

\* NaiveDate + Duration::days(n)
RECURSIVE AddDays(_, _)
AddDays(d, n) ==
    IF n = 0 THEN d
    ELSE IF n > 0 THEN Let(NextDay(d), LAMBDA e : AddDays(e, n - 1))
    ELSE Let(PrevDay(d), LAMBDA e : AddDays(e, n + 1))

\* NaiveTime::from_hms_micro panics on a field out of range (a microsecond
\* below 2,000,000 stands for a leap second)
ValidTime(h, m, s, micro) ==
    h \in 0..23 /\ m \in 0..59 /\ s \in 0..59 /\ micro >= 0 /\ micro < 2000000

\* FixedOffset::east panics unless the offset is within a day
ValidOffset(secs) == -86400 < secs /\ secs < 86400

MonthKey == <<0, 3, 2, 5, 0, 3, 5, 1, 4, 6, 2, 4>>

\* weekday::day_of_week: [ok, v], v the numeral of the weekday, Sunday = 0;
\* it fails on a month outside 1..12
day_of_week(year, month, day) ==
    IF month \notin 1..12 THEN [ok |-> FALSE, v |-> 0]
    ELSE LET y == IF month < 3 THEN year - 1 ELSE year IN
         [ok |-> TRUE,
          v |-> (y + (y \div 4) - (y \div 100) + (y \div 400) + MonthKey[month] + day) % 7]

\* DayOfWeek::difference: the days from dow to other.  The two readings of
\* section 4.7 and section 9: forward only, or the shortest way with a tie
\* to the future
difference(dow, other) ==
    LET fwd == (other - dow) % 7 IN
    {fwd, IF fwd > 3 THEN fwd - 7 ELSE fwd}

-----------------------------------------------------------------------------
(* The assembler: Parser::build_naive and build_tzaware, lib.rs 1119-1180  *)

ZeroDt ==
    [year |-> 0, month |-> 0, day |-> 0, hour |-> 0, minute |-> 0, second |-> 0,
     microsecond |-> 0]

\* the day offsets of lines 1123-1133: [panic, offs]
d_offsets(res, default) ==
    LET y == unwrap_or(res.year, default.year)
        m == unwrap_or(res.month, default.month)
    IN  IF res.weekday.some /\ ~res.day.some THEN
            LET dow == day_of_week(y, m, default.day) IN
            IF ~dow.ok THEN [panic |-> TRUE, offs |-> {0}]
            ELSE [panic |-> FALSE, offs |-> difference(dow.v, (res.weekday.v + 1) % 7)]
        ELSE [panic |-> FALSE, offs |-> {0}]

Min(a, b) == IF a <= b THEN a ELSE b

\* the date of lines 1136-1142 from the clamped day and the weekday offset
\* naive_date that adds the offset to the day number, without the calendar
naive_date_day_only(d, d_offset) == [d EXCEPT !.day = d.day + d_offset]

naive_date(d, d_offset) == AddDays(d, d_offset)

\* build_naive with the weekday offset d_offset: [st, dt, e]
build_naive(res, default, d_offset) ==
    LET y == unwrap_or(res.year, default.year)
        m == unwrap_or(res.month, default.month)
        dim == days_in_month(y, m)
        bad(st, e) == [st |-> st, dt |-> ZeroDt, e |-> e]
    IN  IF ~dim.ok THEN bad("err", Error("InvalidMonth"))
        ELSE LET d0 == from_ymd(y, m, Min(unwrap_or(res.day, default.day), dim.v)) IN
        IF d0.panic THEN bad("panic", NoError)
        ELSE LET d == naive_date(d0.d, d_offset)
                 h == unwrap_or(res.hour, default.hour)
                 mi == unwrap_or(res.minute, default.minute)
                 s == unwrap_or(res.second, default.second)
                 us == unwrap_or(res.microsecond, default.microsecond)
             IN  IF ~ValidTime(h, mi, s, us) THEN bad("panic", NoError)
                 ELSE [st |-> "ok",
                       dt |-> [year |-> d.year, month |-> d.month, day |-> d.day,
                               hour |-> h, minute |-> mi, second |-> s,
                               microsecond |-> us],
                       e |-> NoError]

\* HashMap::get of tzinfos, a set of <<name, seconds>> pairs
TzLookup(tzinfos, name) ==
    IF \E e \in tzinfos : e[1] = name
      THEN Some((CHOOSE e \in tzinfos : e[1] = name)[2])
      ELSE None

\* build_tzaware that looks the name up in tzinfos before it takes the parsed
\* offset
build_tzaware_tzinfos_first(res, tzinfos) ==
    IF res.tzname.some /\ TzLookup(tzinfos, Str(res.tzname.v)).some
      THEN [st |-> "ok", offset |-> TzLookup(tzinfos, Str(res.tzname.v))]
      ELSE [st |-> "ok", offset |-> res.tzoffset]

\* build_tzaware: [st, offset]; "err" is Err(TimezoneUnsupported)
build_tzaware(res, tzinfos) ==
    IF res.tzoffset.some THEN
        IF ValidOffset(res.tzoffset.v) THEN [st |-> "ok", offset |-> res.tzoffset]
        ELSE [st |-> "panic", offset |-> None]
    ELSE IF ~res.tzname.some \/ res.tzname.v \in {<<" ">>, <<".">>, <<"-">>}
      THEN [st |-> "ok", offset |-> None]
    ELSE IF res.tzname.some /\ TzLookup(tzinfos, Str(res.tzname.v)).some THEN
        LET t == TzLookup(tzinfos, Str(res.tzname.v)) IN
        IF ValidOffset(t.v) THEN [st |-> "ok", offset |-> t]
        ELSE [st |-> "panic", offset |-> None]
    ELSE IF res.tzname.some THEN [st |-> "ok", offset |-> None]
    ELSE [st |-> "err", offset |-> None]

\* the default_ts of Parser::parse, lib.rs 900-902
default_ts(default, now) ==
    LET d == IF default.some THEN default.v ELSE now IN
    [year |-> d.year, month |-> d.month, day |-> d.day,
     hour |-> 0, minute |-> 0, second |-> 0, microsecond |-> 0]

-----------------------------------------------------------------------------
(* Parser::parse, lib.rs 889-916, as a state machine: the call starts      *)
(* (tokenize), walks the tokens one loop iteration at a time, resolves and *)
(* validates (lib.rs 1066-1080), and assembles.                            *)

NoneDt == [some |-> FALSE, v |-> ZeroDt]

Dt(y, m, d, h, mi, s) ==
    [year |-> y, month |-> m, day |-> d, hour |-> h, minute |-> mi, second |-> s,
     microsecond |-> 0]

\* the arguments of the crate's parse(timestr), lib.rs 1464-1474, read at
\* the clock now
PlainOpts(now) ==
    [dayfirst |-> NoneB, yearfirst |-> NoneB, fuzzy |-> FALSE,
     fuzzy_with_tokens |-> FALSE, default |-> NoneDt, ignoretz |-> FALSE,
     tzinfos |-> {}, now |-> now]

IdleOpts == PlainOpts(ZeroDt)

NoResult ==
    [kind |-> "none", dt |-> ZeroDt, offset |-> None, tokens |-> NoneS, e |-> NoError]

Returned(dt, offset, toks) ==
    [kind |-> "Ok", dt |-> dt, offset |-> offset, tokens |-> toks, e |-> NoError]

Failed(e) == [NoResult EXCEPT !.kind = "Err", !.e = e]

Panicked == [NoResult EXCEPT !.kind = "Panic"]

WalkInit(l) ==
    [l |-> l, i |-> 0, res |-> ParsingResultDefault, ymd |-> YMDDefault,
     skipped_idxs |-> <<>>]

\* 926: fuzzy_with_tokens implies fuzzy
Fuzzy(o) == o.fuzzy_with_tokens \/ o.fuzzy

\* 928-937: the flags of the call, or those of the ParserInfo
DayFirst(o, info) == IF o.dayfirst.some THEN o.dayfirst.v ELSE info.dayfirst

YearFirst(o, info) == IF o.yearfirst.some THEN o.yearfirst.v ELSE info.yearfirst

Info(o) == ParserInfoDefault(o.now.year)

\* 1075-1080: the skipped tokens, returned with fuzzy_with_tokens
skipped_tokens(w, o) ==
    IF o.fuzzy_with_tokens
      THEN [some |-> TRUE,
            v |-> [k \in 1..Len(w.skipped_idxs) |-> Tok(w, w.skipped_idxs[k])]]
      ELSE NoneS

\* 1066-1073: [err, res]
resolve_and_validate(w, o) ==
    LET r == resolve_ymd(w.ymd, YearFirst(o, Info(o)), DayFirst(o, Info(o)))
        res == [w.res EXCEPT !.century_specified = w.ymd.century_specified,
                             !.year = r.y, !.month = r.m, !.day = r.d]
    IN  [err |-> r.err, res |-> validate(Info(o), res)]

\* one call of Tokenizer::next by the collecting loop of tokenize, 374-377
TokNext ==
    /\ pc = "tokenize"
    /\ ~tdone
    /\ LET n == TokenizerNext([ps |-> parse_string, ts |-> token_stack]) IN
        /\ parse_string' = n.ps
        /\ token_stack' = n.ts
        /\ collected' = IF n.none THEN collected ELSE Append(collected, n.tok)
        /\ tdone' = n.none
    /\ UNCHANGED <<input, args, ret, opts, walk, pc, result>>

\* Parser::parse calls parse_with_tokens, whose line 941 tokenizes the string
ParseStart ==
    /\ pc = "start"
    /\ parse_string' = input
    /\ token_stack' = <<>>
    /\ collected' = <<>>
    /\ tdone' = FALSE
    /\ pc' = "tokenize"
    /\ UNCHANGED <<input, args, ret, opts, walk, result>>

\* parse_with_tokens, 939-947: the loop starts on the collected tokens
WalkBegin ==
    /\ pc = "tokenize"
    /\ tdone
    /\ walk' = WalkInit(collected)
    /\ pc' = "walk"
    /\ UNCHANGED <<input, parse_string, token_stack, collected, tdone, args, ret,
                   opts, result>>

\* the loop of 949-1064 moves to the outcome s of one iteration
WalkTo(s) ==
    /\ walk' = s.w
    /\ pc' = IF s.st = "ok" THEN "walk" ELSE "done"
    /\ result' = IF s.st = "err" THEN Failed(s.e)
                 ELSE IF s.st = "panic" THEN Panicked
                 ELSE result

WalkStep ==
    /\ pc = "walk"
    /\ walk.i < Len(walk.l)
    /\ WalkTo(walk_step(walk, Fuzzy(opts), Info(opts)))
    /\ UNCHANGED <<input, parse_string, token_stack, collected, tdone, args, ret, opts>>

\* 1066-1073 end the parse with the error of r, or hand r.res to the assembler
ResolveTo(r) ==
    /\ walk' = IF r.err = "" THEN [walk EXCEPT !.res = r.res] ELSE walk
    /\ pc' = IF r.err = "" THEN "build" ELSE "done"
    /\ result' = IF r.err = "" THEN result ELSE Failed(InternalError(r.err))

Resolve ==
    /\ pc = "walk"
    /\ walk.i >= Len(walk.l)
    /\ ResolveTo(resolve_and_validate(walk, opts))
    /\ UNCHANGED <<input, parse_string, token_stack, collected, tdone, args, ret, opts>>

\* 1074-1080: the Ok or Err of parse_with_tokens from the naive date-time n and
\* the offset tz
Outcome(n, tz, toks) ==
    IF n.st = "err" THEN Failed(n.e)
    ELSE IF n.st = "panic" THEN Panicked
    ELSE IF opts.ignoretz THEN Returned(n.dt, None, toks)
    ELSE IF tz.st = "panic" THEN Panicked
    ELSE IF tz.st = "err" THEN Failed(Error("TimezoneUnsupported"))
    ELSE Returned(n.dt, tz.offset, toks)

BuildWith(default, offs) ==
    \E d_offset \in offs.offs :
        result' = IF offs.panic THEN Panicked
                  ELSE Outcome(build_naive(walk.res, default, d_offset),
                               build_tzaware(walk.res, opts.tzinfos),
                               skipped_tokens(walk, opts))

Build ==
    /\ pc = "build"
    /\ BuildWith(default_ts(opts.default, opts.now),
                 d_offsets(walk.res, default_ts(opts.default, opts.now)))
    /\ pc' = "done"
    /\ UNCHANGED <<input, parse_string, token_stack, collected, tdone, args, ret,
                   opts, walk>>

ParseNext == ParseStart \/ TokNext \/ WalkBegin \/ WalkStep \/ Resolve \/ Build

\* the strings made of one to n pieces of the vocabulary V
RECURSIVE Phrases(_, _)
Phrases(V, n) ==
    IF n = 0 THEN {<<>>}
    ELSE LET P == Phrases(V, n - 1) IN P \cup {p \o v : p \in P, v \in V}

-----------------------------------------------------------------------------
(* Specifications.  Each starts from a bounded set of inputs; the          *)
(* variables of the machines a specification does not run stay idle.       *)

IdleArgs == [fn |-> "", year |-> 0, month |-> 0, century_specified |-> FALSE, ref |-> 0]

IdleRet == [ok |-> FALSE, v |-> 0]

IdleTok ==
    /\ parse_string = <<>> /\ token_stack = <<>> /\ collected = <<>> /\ tdone = FALSE

IdleFn == args = IdleArgs /\ ret = IdleRet

IdleParse ==
    /\ opts = IdleOpts /\ walk = WalkInit(<<>>) /\ result = NoResult

RECURSIVE StringsUpTo(_, _)
StringsUpTo(A, n) ==
    IF n = 0 THEN {<<>>}
    ELSE LET S == StringsUpTo(A, n - 1)
         IN S \cup {Append(s, c) : s \in {z \in S : Len(z) = n - 1}, c \in A}

(* The tokenizer: every string over TokAlphabet of at most MaxLen          *)
(* characters, read one Tokenizer::next call at a time.                    *)

TokAlphabet == {"1", "a", " ", "\t", ".", ",", ":"}

InitTok ==
    /\ input \in StringsUpTo(TokAlphabet, MaxLen)
    /\ parse_string = input
    /\ token_stack = <<>>
    /\ collected = <<>>
    /\ tdone = FALSE
    /\ pc = "tokenize"
    /\ IdleFn /\ IdleParse

SpecTok == InitTok /\ [][TokNext]_vars

(* convertyear: every year argument up to MaxYearArg against every         *)
(* reference year of RefYears.                                             *)

RefYears == 1950..(1950 + RefSpan)

InitYear ==
    /\ args \in [fn : {"convertyear"}, year : 0..MaxYearArg, month : {0},
                 century_specified : BOOLEAN, ref : RefYears]
    /\ ret = IdleRet
    /\ pc = "call"
    /\ input = <<>> /\ IdleTok /\ IdleParse

CallConvertYear ==
    /\ pc = "call" /\ args.fn = "convertyear"
    /\ ret' = [ok |-> TRUE,
               v |-> convertyear(ParserInfoDefault(args.ref), args.year,
                                 args.century_specified)]
    /\ pc' = "returned"
    /\ UNCHANGED <<input, parse_string, token_stack, collected, tdone, args,
                   opts, walk, result>>

SpecYear == InitYear /\ [][CallConvertYear]_vars

(* days_in_month: the years of DimYears and the months 0..13.              *)

DimYears == 1890..(1890 + DimSpan)

InitDays ==
    /\ args \in [fn : {"days_in_month"}, year : DimYears, month : 0..13,
                 century_specified : {FALSE}, ref : {0}]
    /\ ret = IdleRet
    /\ pc = "call"
    /\ input = <<>> /\ IdleTok /\ IdleParse

CallDaysInMonth ==
    /\ pc = "call" /\ args.fn = "days_in_month"
    /\ ret' = days_in_month(args.year, args.month)
    /\ pc' = "returned"
    /\ UNCHANGED <<input, parse_string, token_stack, collected, tdone, args,
                   opts, walk, result>>

SpecDays == InitDays /\ [][CallDaysInMonth]_vars

(* YMD::resolve_ymd on three values that carry no label (each appended    *)
(* from a token of one or two digits), under every yearfirst and dayfirst. *)

InitYmd ==
    /\ args \in [fn : {"resolve_ymd"}, values : [1..3 -> 0..MaxYmd],
                 yearfirst : BOOLEAN, dayfirst : BOOLEAN]
    /\ ret = Resolved(None, None, None)
    /\ pc = "call"
    /\ input = <<>> /\ IdleTok /\ IdleParse

CallResolveYmd ==
    /\ pc = "call"
    /\ args.fn = "resolve_ymd"
    /\ ret' = resolve_ymd([YMDDefault EXCEPT !.values = args.values],
                          args.yearfirst, args.dayfirst)
    /\ pc' = "returned"
    /\ UNCHANGED <<input, parse_string, token_stack, collected, tdone, args, opts,
                   walk, result>>

SpecYmd == InitYmd /\ [][CallResolveYmd]_vars

-----------------------------------------------------------------------------
(* YMD::append and YMD::resolve_ymd on the lists that the calls of append  *)
(* in parse_with_tokens and parse_numeric_token build: a number with no    *)
(* label or with the Year label, a month word with the Month label.  No    *)
(* call passes the Day label.  The results of append are dropped, as they  *)
(* are at every call.  walk.ymd is the list.                               *)

NumberTokens ==
    { <<"2">>, <<"1", "3">>, <<"3", "2">>, <<"0", "0", "2">>, <<"2", "0", "0", "3">> }

MonthTokens == { <<"F", "e", "b">>, <<"D", "e", "c">> }

AppendCalls ==
    [token : NumberTokens, label : {"None", "Year"}]
        \cup [token : MonthTokens, label : {"Month"}]

AppendValue(c) ==
    IF c.label = "Month" THEN get_month(c.token).v ELSE DigitsValue(c.token)

InitLabels ==
    /\ args \in [fn : {"resolve_ymd"}, yearfirst : BOOLEAN, dayfirst : BOOLEAN]
    /\ ret = Resolved(None, None, None)
    /\ walk = WalkInit(<<>>)
    /\ pc = "call"
    /\ input = <<>> /\ IdleTok
    /\ opts = IdleOpts /\ result = NoResult

CallAppend ==
    /\ pc = "call"
    /\ Len(walk.ymd.values) < MaxAppends
    /\ \E c \in AppendCalls :
          walk' = [walk EXCEPT !.ymd = append(walk.ymd, AppendValue(c), c.token, c.label).ymd]
    /\ UNCHANGED <<input, parse_string, token_stack, collected, tdone, args, ret,
                   opts, pc, result>>

CallResolveLabelled ==
    /\ pc = "call"
    /\ walk.ymd.values # <<>>
    /\ ret' = resolve_ymd(walk.ymd, args.yearfirst, args.dayfirst)
    /\ pc' = "returned"
    /\ UNCHANGED <<input, parse_string, token_stack, collected, tdone, args, opts,
                   walk, result>>

LabelsNext == CallAppend \/ CallResolveLabelled

SpecLabels == InitLabels /\ [][LabelsNext]_vars

-----------------------------------------------------------------------------
(* ParserInfo::validate on the results that the token loop can leave: a   *)
(* time zone name of upper-case letters or none, an offset or none, a year *)
(* of two or four digits or none, in the year 2003.                        *)

ZoneNames == {<<"Z">>, <<"U", "T", "C">>, <<"G", "M", "T">>, <<"E", "S", "T">>}

InitValidate ==
    /\ args \in [fn : {"validate"},
                 tzname : {NoneS} \cup {[some |-> TRUE, v |-> n] : n \in ZoneNames},
                 tzoffset : {None} \cup {Some(o) : o \in {0, 3600, -10800}},
                 year : {None} \cup {Some(y) : y \in {3, 99, 2003}},
                 century_specified : BOOLEAN]
    /\ ret = ParsingResultDefault
    /\ pc = "call"
    /\ input = <<>> /\ IdleTok /\ IdleParse

CallValidate ==
    /\ pc = "call"
    /\ args.fn = "validate"
    /\ ret' = validate(ParserInfoDefault(2003),
                     [ParsingResultDefault EXCEPT
                        !.tzname = args.tzname, !.tzoffset = args.tzoffset,
                        !.year = args.year,
                        !.century_specified = args.century_specified])
    /\ pc' = "returned"
    /\ UNCHANGED <<input, parse_string, token_stack, collected, tdone, args, opts,
                   walk, result>>

SpecValidate == InitValidate /\ [][CallValidate]_vars

-----------------------------------------------------------------------------
(* Parser::parse: the strings of at most MaxPieces pieces of Pieces, under *)
(* each argument set of ParseOpts, at the clock Clock.  No string of       *)
(* MaxPieces + 1 pieces holds a run of more than nine digits, the width    *)
(* the integers of the model hold (see AsI32).                             *)

Clock == Dt(2003, 9, 25, 10, 36, 28)

Pieces ==
    { <<"S", "a", "t", " ">>, <<"F", "e", "b", " ">>, <<"2">>, <<"/", "2", "9">>,
      <<"/", "1", "9", "0", "0">>, <<"/", "2", "0", "0", "0">>, <<"3", "1", " ">>,
      <<"1", "3", ":", "0", "0">>, <<"1", "0", ":", "3", "6">>, <<" ", "a", "m">>,
      <<"x", "y", "z">>, <<",">> }

StrictOpts == PlainOpts(Clock)

DefaultOpts ==
    [PlainOpts(Clock) EXCEPT !.default = [some |-> TRUE, v |-> Dt(2003, 1, 31, 10, 36, 28)]]

FuzzyOpts ==
    [PlainOpts(Clock) EXCEPT !.fuzzy = TRUE, !.yearfirst = [some |-> TRUE, v |-> TRUE]]

FuzzyTokensOpts ==
    [PlainOpts(Clock) EXCEPT !.fuzzy_with_tokens = TRUE, !.ignoretz = TRUE,
                             !.dayfirst = [some |-> TRUE, v |-> TRUE]]

ParseOpts == {StrictOpts, DefaultOpts, FuzzyOpts, FuzzyTokensOpts}

InitParse(V, O) ==
    /\ input \in Phrases(V, MaxPieces)
    /\ opts \in O
    /\ walk = WalkInit(<<>>)
    /\ result = NoResult
    /\ pc = "start"
    /\ IdleTok /\ IdleFn

Init == InitParse(Pieces, ParseOpts)

Next == ParseNext

Spec == Init /\ [][Next]_vars

-----------------------------------------------------------------------------
(* Parser::parse on strings of numeric dates: values joined by '/', a      *)
(* compact six-digit date behind a '-', a weekday, and a month word behind *)
(* a number that is no day.  Every piece starts or ends with a character   *)
(* that is no digit, so that no run of digits is longer than eight.        *)

DatePieces ==
    { <<"-", "8", "1", "9", "4", "8", "4">>, <<"1", "3", "/">>, <<"0", "/">>,
      <<"5", "/">>, <<"/", "2", "0", "0", "0">>, <<"/", "0", "3">>, <<" ", "3", "1">>,
      <<"S", "a", "t", " ">>, <<"3", "2", "F", "e", "b">> }

DayFirstOpts == [PlainOpts(Clock) EXCEPT !.dayfirst = [some |-> TRUE, v |-> TRUE]]

YearFirstOpts == [PlainOpts(Clock) EXCEPT !.yearfirst = [some |-> TRUE, v |-> TRUE]]

DateOpts == {StrictOpts, DayFirstOpts, YearFirstOpts, FuzzyTokensOpts}

InitDates == InitParse(DatePieces, DateOpts)

SpecDates == InitDates /\ [][ParseNext]_vars

-----------------------------------------------------------------------------
(* Parser::parse on a time followed by time zone names and signed offsets, *)
(* with and without a tzinfos map; some strings end in a sign, in a month  *)
(* word and '-', or in a number behind a space.                            *)

ZonePieces ==
    { <<"1", "0", ":", "3", "6">>, <<" ", "G", "M", "T">>, <<" ", "E", "S", "T">>,
      <<"+", "0", "3", "3", "0">>, <<"-", "0", "3", "3", "0">>, <<"+", "0", "3">>,
      <<"-", "0", "3", ":", "3", "0">>, <<"-">>, <<"F", "e", "b">>, <<" ", "5">> }

TzInfosOpts == [PlainOpts(Clock) EXCEPT !.tzinfos = {<<"EST", -18000>>, <<"GMT", 3600>>}]

ZoneOpts == {StrictOpts, TzInfosOpts}

InitZones == InitParse(ZonePieces, ZoneOpts)

SpecZones == InitZones /\ [][ParseNext]_vars

-----------------------------------------------------------------------------
(* Parser::parse on compact dates and times: YYYYMMDD, YYMMDD, HHMMSS with *)
(* and without a fraction, behind a 'T' or a space.  A piece that ends in  *)
(* digits meets a piece that starts with digits only in a token that a     *)
(* compact form takes by slices.                                           *)

CompactPieces ==
    { <<"1", "9", "9", "9", "0", "1", "0", "1", "T", "2", "3", "5", "9", "5", "9", ".", "5">>,
      <<"9", "9", "1", "2", "3", "1", " ">>,
      <<"T", "2", "3", "5", "9", "5", "9">>,
      <<"T", "2", "5", "6", "1", "9", "9">>,
      <<"T", "2", "3", "5", "9", "5", "9", ".", "1", "2", "3", "4", "5", "6", "7">> }

CompactOpts == {StrictOpts, YearFirstOpts}

InitCompact == InitParse(CompactPieces, CompactOpts)

SpecCompact == InitCompact /\ [][ParseNext]_vars

-----------------------------------------------------------------------------
(* Parser::parse on an hour of the 12-hour clock and an AM/PM word, with   *)
(* and without a space between them; args keeps what was written.         *)

\* the decimal digits of h < 100
Written(h) ==
    IF h < 10 THEN <<DigitSeq[h + 1]>>
    ELSE <<DigitSeq[(h \div 10) + 1], DigitSeq[(h % 10) + 1]>>

InitAmPm ==
    /\ args \in [fn : {"parse"}, hour : 0..12, pm : BOOLEAN, space : BOOLEAN]
    /\ input = Written(args.hour) \o (IF args.space THEN <<" ">> ELSE <<>>)
                  \o (IF args.pm THEN <<"p", "m">> ELSE <<"a", "m">>)
    /\ opts \in {StrictOpts, DefaultOpts}
    /\ ret = IdleRet
    /\ walk = WalkInit(<<>>)
    /\ result = NoResult
    /\ pc = "start"
    /\ IdleTok

SpecAmPm == InitAmPm /\ [][ParseNext]_vars

-----------------------------------------------------------------------------
(* Parser::parse on month words: one, two or three of them, with a day and *)
(* a year.                                                                 *)

MonthPieces ==
    { <<"J", "a", "n">>, <<" ", "F", "e", "b">>, <<"M", "a", "r", " ">>,
      <<" ", "5">>, <<" ", "2", "0", "0", "3">> }

MonthOpts == {StrictOpts, DefaultOpts}

InitMonths == InitParse(MonthPieces, MonthOpts)

SpecMonths == InitMonths /\ [][ParseNext]_vars

-----------------------------------------------------------------------------
(* Parser::parse to its end.  The vocabulary has a token for every arm of  *)
(* the token loop and a word with a '.' for decimal_split.  parse is one   *)
(* sequential call: a step that can be taken is taken.                     *)

LivePieces ==
    { <<"J", "a", "n">>, <<" ">>, <<"5">>, <<"p", "m">>, <<"S", "a", "t">>,
      <<"+", "0", "3">>, <<":">>, <<"x", ".">> }

LiveOpts == {StrictOpts, FuzzyTokensOpts}

InitLive == InitParse(LivePieces, LiveOpts)

SpecLive == InitLive /\ [][ParseNext]_vars /\ WF_vars(ParseNext)

-----------------------------------------------------------------------------
(* Properties of the tokenizer, checked under SpecTok.                     *)

\* the characters not yet returned: the tokens waiting on token_stack (the last
\* one first), then the unread rest of the string
Pending == Concat(Reverse(token_stack)) \o parse_string

\* out is s character for character, but for whitespace given as one space and
\* for a ',' after two digits of a number given as '.'
Preserved(s, out) ==
    /\ Len(out) = Len(s)
    /\ \A k \in 1..Len(s) :
         \/ out[k] = s[k]
         \/ is_whitespace(s[k]) /\ out[k] = " "
         \/ /\ s[k] = "," /\ out[k] = "."
            /\ k > 2 /\ is_numeric(s[k - 1]) /\ is_numeric(s[k - 2])

\* the place in the input of the first character of token j
RECURSIVE TokenStart(_)
TokenStart(j) == IF j = 1 THEN 1 ELSE TokenStart(j - 1) + Len(collected[j - 1])

\* input[a..b] is two digits or more, a ',' at c, and digits, with whitespace or
\* an end of the string on each side
CommaDecimalBetweenSpaces(a, c, b) ==
    /\ a + 2 <= c /\ c < b
    /\ input[c] = ","
    /\ \A k \in (a..b) \ {c} : is_numeric(input[k])
    /\ a = 1 \/ is_whitespace(input[a - 1])
    /\ b = Len(input) \/ is_whitespace(input[b + 1])

\* C5: the tokens returned so far, followed by the characters not yet returned,
\* are the input character for character, except that a whitespace character is
\* a single space and a ',' inside a number may be a '.'; so when tokenize is
\* done the concatenation of its tokens is the input up to these two
\* replacements, nothing dropped, duplicated or reordered.  A number with a ','
\* and no '.' that stands between whitespace is then one token, its ',' a '.'.
C5_ConcatPreserved ==
    /\ Preserved(input, Concat(collected) \o Pending)
    /\ tdone =>
         /\ Pending = <<>>
         /\ \A a \in 1..Len(input) : \A c \in a..Len(input) : \A b \in c..Len(input) :
              CommaDecimalBetweenSpaces(a, c, b) =>
                \E j \in 1..Len(collected) :
                  /\ TokenStart(j) = a
                  /\ collected[j] = SubSeq(input, a, c - 1) \o <<".">>
                                      \o SubSeq(input, c + 1, b)

\* a finished tokenization with a ',' returned as '.', a tab returned as a space
\* and more than three tokens
C5_Witness ==
    /\ tdone
    /\ Len(collected) > 3
    /\ Len(Concat(collected)) = Len(input)
    /\ \E k \in 1..Len(input) : input[k] = "," /\ Concat(collected)[k] = "."
    /\ \E k \in 1..Len(input) : input[k] = "\t" /\ Concat(collected)[k] = " "

HasLetter(t) == \E k \in 1..Len(t) : is_alphabetic(t[k])

HasDigit(t) == \E k \in 1..Len(t) : is_numeric(t[k])

\* C6: no token returned by tokenize holds both a letter and a digit.
C6_NoMixedToken ==
    \A j \in 1..Len(collected) : ~(HasLetter(collected[j]) /\ HasDigit(collected[j]))

\* input[a..b] is a run of letters only or of digits only with whitespace or an
\* end of the string on each side
WordBetweenSpaces(a, b) ==
    /\ a <= b
    /\ \/ \A k \in a..b : is_alphabetic(input[k])
       \/ \A k \in a..b : is_numeric(input[k])
    /\ a = 1 \/ is_whitespace(input[a - 1])
    /\ b = Len(input) \/ is_whitespace(input[b + 1])

\* C7: a finished tokenization has one " " token for every whitespace character
\* of the input, at the place of that character, and no other token holds
\* whitespace; every run of letters or of digits that stands between whitespace
\* (or an end of the string) is one token, unchanged.
C7_OneSpacePerWhitespace ==
    tdone =>
      /\ Cardinality({j \in 1..Len(collected) : collected[j] = <<" ">>})
           = Cardinality({k \in 1..Len(input) : is_whitespace(input[k])})
      /\ \A k \in 1..Len(input) :
           is_whitespace(input[k]) =>
             \E j \in 1..Len(collected) : TokenStart(j) = k /\ collected[j] = <<" ">>
      /\ \A j \in 1..Len(collected) :
           collected[j] # <<" ">> =>
             \A k \in 1..Len(collected[j]) : ~is_whitespace(collected[j][k])
      /\ \A a \in 1..Len(input) : \A b \in a..Len(input) :
           WordBetweenSpaces(a, b) =>
             \E j \in 1..Len(collected) :
               TokenStart(j) = a /\ collected[j] = SubSeq(input, a, b)

\* a finished tokenization of a word, two whitespace characters and a number
C7_Witness ==
    /\ tdone
    /\ \E k \in 2..(Len(input) - 2) :
         /\ is_alphabetic(input[k - 1])
         /\ is_whitespace(input[k]) /\ is_whitespace(input[k + 1])
         /\ is_numeric(input[k + 2])
         /\ \E j \in 1..(Len(collected) - 3) :
              /\ TokenStart(j + 1) = k
              /\ collected[j + 1] = <<" ">> /\ collected[j + 2] = <<" ">>
              /\ HasLetter(collected[j]) /\ HasDigit(collected[j + 3])

-----------------------------------------------------------------------------
(* Properties of convertyear, checked under SpecYear, and of               *)
(* days_in_month, checked under SpecDays.                                  *)

\* convertyear has returned for a year of two digits at most, the century not
\* specified
TwoDigitYearConverted ==
    /\ pc = "returned" /\ args.fn = "convertyear"
    /\ args.year <= 99 /\ ~args.century_specified

\* C8, as stated: the year returned for a two-digit year and the reference year
\* Y lies in [Y-49, Y+50].
C8_WithinMinus49Plus50 ==
    TwoDigitYearConverted => ret.v \in (args.ref - 49)..(args.ref + 50)

\* C8, amended: the year returned for a two-digit year and the reference year Y
\* lies in [Y-50, Y+49].
C8_WithinMinus50Plus49 ==
    TwoDigitYearConverted => ret.v \in (args.ref - 50)..(args.ref + 49)

\* a two-digit year converted to the year 50 years before the reference year
C8_Witness == TwoDigitYearConverted /\ ret.v = args.ref - 50

\* C9: days_in_month(year, month) is the number of days of the month in the
\* Gregorian calendar, for every year and every month 1..12.
C9_GregorianDays ==
    (pc = "returned" /\ args.fn = "days_in_month" /\ args.month \in 1..12) =>
        ret = [ok |-> TRUE, v |-> GregorianDays(args.year, args.month)]

-----------------------------------------------------------------------------
(* Properties of Parser::parse, checked under Spec.                        *)

\* the call is strict: neither fuzzy nor fuzzy_with_tokens (which implies fuzzy)
Strict == ~Fuzzy(opts)

\* the loop is about to read the token l[i], and arm is the arm that takes it
AtArm(arm) == pc = "walk" /\ walk.i < Len(walk.l) /\ Branch(walk) = arm

\* C1: with fuzzy = true, parse never returns UnrecognizedToken.
C1_FuzzyNeverUnrecognized ==
    (pc = "done" /\ opts.fuzzy) =>
        ~(result.kind = "Err" /\ result.e.kind = "UnrecognizedToken")

\* C2: in a strict call, when the loop reads a token that no arm but the last
\* takes: a token that is not a jump word ends the parse with UnrecognizedToken
\* carrying that token; a jump word has its index pushed on the skipped list and
\* the loop goes on with the next token, no result set.
C2_StrictUnknownOrJump ==
    [][ (Strict /\ AtArm("other")) =>
          IF get_jump(Tok(walk, walk.i))
            THEN /\ pc' = "walk"
                 /\ walk'.skipped_idxs = Append(walk.skipped_idxs, walk.i)
                 /\ walk'.i = walk.i + 1
                 /\ result' = NoResult
            ELSE /\ pc' = "done"
                 /\ result' = Failed(UnrecognizedToken(Tok(walk, walk.i))) ]_vars

\* a strict parse that skipped a jump word and then ended with UnrecognizedToken
\* carrying the token it stopped at
C2_Witness ==
    /\ pc = "done" /\ Strict
    /\ walk.skipped_idxs # <<>>
    /\ walk.i < Len(walk.l)
    /\ ~get_jump(Tok(walk, walk.i))
    /\ result = Failed(UnrecognizedToken(Tok(walk, walk.i)))

\* C3: in a strict call, when the loop reads an AM/PM word with result.hour
\* unset the parse ends with the error AmPmWithoutHour, and with result.hour set
\* outside 0..12 it ends with the error InvalidHour.
C3_StrictAmPmErrors ==
    [][ (Strict /\ AtArm("ampm")) =>
          /\ ~walk.res.hour.some =>
               (pc' = "done" /\ result' = Failed(Error("AmPmWithoutHour")))
          /\ (walk.res.hour.some /\ walk.res.hour.v \notin 0..12) =>
               (pc' = "done" /\ result' = Failed(Error("InvalidHour"))) ]_vars

\* C4: the hour, minute, second and microsecond that the string does not give
\* are those of the default date-time of the call.
C4_TimeFromDefault ==
    (pc = "done" /\ result.kind = "Ok" /\ opts.default.some) =>
        /\ ~walk.res.hour.some => result.dt.hour = opts.default.v.hour
        /\ ~walk.res.minute.some => result.dt.minute = opts.default.v.minute
        /\ ~walk.res.second.some => result.dt.second = opts.default.v.second
        /\ ~walk.res.microsecond.some =>
             result.dt.microsecond = opts.default.v.microsecond

\* C10: the date of a date-time that parse returns exists in the Gregorian
\* calendar: its month is in 1..12 and its day in 1..days of that month.
C10_ReturnedDateExists ==
    (pc = "done" /\ result.kind = "Ok") =>
        ValidDate(result.dt.year, result.dt.month, result.dt.day)

\* a date-time returned with a weekday moved into the next month, and one
\* returned with the day of the string cut back to the end of the month
C10_Witness ==
    /\ pc = "done" /\ result.kind = "Ok"
    /\ \/ /\ walk.res.weekday.some /\ ~walk.res.day.some
          /\ result.dt.month # unwrap_or(walk.res.month, default_ts(opts.default, opts.now).month)
       \/ /\ walk.res.day.some /\ result.dt.day < walk.res.day.v

\* C16: when no weekday is parsed, the month of the returned date is the
\* resolved month m and its day is the parsed day, or the day of the default,
\* cut back to the length of month m of year y: a day beyond the end of the
\* month becomes the last day of the month and never moves into the next one.
C16_DayClamped ==
    (pc = "done" /\ result.kind = "Ok" /\ ~walk.res.weekday.some) =>
        LET default == default_ts(opts.default, opts.now)
            y == unwrap_or(walk.res.year, default.year)
            m == unwrap_or(walk.res.month, default.month)
        IN  /\ result.dt.month = m
            /\ result.dt.day =
                 Min(unwrap_or(walk.res.day, default.day), GregorianDays(y, m))

-----------------------------------------------------------------------------
(* Properties of Parser::parse on numeric dates, checked under SpecDates.  *)

\* the resolution of 1066-1073 left a month outside 1..12 to the assembler
MonthOutOfRange ==
    pc = "build" /\ walk.res.month.some /\ walk.res.month.v \notin 1..12

\* build_naive computes the weekday offset of 1123-1133 (weekday.rs)
WeekdayOffsetTaken == walk.res.weekday.some /\ ~walk.res.day.some

RECURSIVE StrictWalk(_, _)
StrictWalk(w, info) ==
    IF w.i >= Len(w.l) THEN StepOk(w)
    ELSE Let(walk_step(w, FALSE, info),
             LAMBDA s : IF s.st = "ok" THEN StrictWalk(s.w, info) ELSE s)

\* the strict call with the arguments o otherwise
StrictOf(o) == [o EXCEPT !.fuzzy = FALSE, !.fuzzy_with_tokens = FALSE]

\* the strict parser returns a date-time for the token list l
StrictAccepts(l, o) ==
    Let(StrictWalk(WalkInit(l), Info(o)),
        LAMBDA s :
          /\ s.st = "ok"
          /\ Let(resolve_and_validate(s.w, StrictOf(o)),
                 LAMBDA r :
                   /\ r.err = ""
                   /\ ~d_offsets(r.res, default_ts(o.default, o.now)).panic
                   /\ \E d_offset \in d_offsets(r.res, default_ts(o.default, o.now)).offs :
                        build_naive(r.res, default_ts(o.default, o.now), d_offset).st = "ok"
                   /\ o.ignoretz \/ build_tzaware(r.res, o.tzinfos).st = "ok"))

\* the tokens of l whose 0-based index is not in idxs
RECURSIVE Without(_, _, _)
Without(l, idxs, k) ==
    IF k > Len(l) THEN <<>>
    ELSE (IF \E j \in 1..Len(idxs) : idxs[j] = k - 1 THEN <<>> ELSE <<l[k]>>)
         \o Without(l, idxs, k + 1)

\* C17: when a parse with fuzzy_with_tokens returns a date-time and the list K
\* of skipped tokens, the strict parser accepts the token stream without the
\* tokens of K: every token that the fuzzy parse ignored is in K.
C17_SkippedRefinement ==
    (pc = "done" /\ opts.fuzzy_with_tokens /\ result.kind = "Ok") =>
        StrictAccepts(Without(collected, walk.skipped_idxs, 1), opts)

\* C18 as stated: in every state of a parse the YMD list holds at most three
\* values.
C18_AtMostThree == Len(walk.ymd.values) <= 3

\* C18: the YMD list holds at most three values in every parse that the
\* resolution of 1066 lets through; the loop appends a fourth value without a
\* test, and resolve_ymd then ends the parse with the internal error
\* ValueError ("More than three YMD values").
C18_AtMostThreeResolved ==
    [][ /\ pc' = "build" => Len(walk'.ymd.values) <= 3
        /\ result'.kind = "Ok" => Len(walk'.ymd.values) <= 3
        /\ (pc = "walk" /\ walk.i >= Len(walk.l) /\ Len(walk.ymd.values) > 3) =>
             (pc' = "done" /\ result' = Failed(InternalError("ValueError"))) ]_vars

\* a parse that appended a fourth value and ended in resolve_ymd
C18_Witness ==
    /\ pc = "done"
    /\ walk.i >= Len(walk.l)
    /\ Len(walk.ymd.values) = 4
    /\ result = Failed(InternalError("ValueError"))

-----------------------------------------------------------------------------
(* Properties of ParserInfo::validate, checked under SpecValidate.         *)

\* C19: in a validated result a time zone name that is a UTC alias comes with
\* the offset 0, the name is never "Z", and an offset of 0 comes with a name.
C19_ValidatedZone ==
    (pc = "returned" /\ args.fn = "validate") =>
        /\ (ret.tzname.some /\ get_utczone(ret.tzname.v)) => ret.tzoffset = Some(0)
        /\ ret.tzname # [some |-> TRUE, v |-> <<"Z">>]
        /\ ret.tzoffset = Some(0) => ret.tzname.some

\* a result with the name GMT and another offset, validated to the offset 0
C19_Witness ==
    /\ pc = "returned" /\ args.fn = "validate"
    /\ args.tzname = [some |-> TRUE, v |-> <<"G", "M", "T">>]
    /\ args.tzoffset = Some(3600)
    /\ ret.tzname = args.tzname /\ ret.tzoffset = Some(0)

-----------------------------------------------------------------------------
(* Properties of YMD::resolve_ymd, checked under SpecYmd.                  *)

\* C12: three unlabelled values (v0, v1, v2) resolve, under every yearfirst and
\* dayfirst, to (year, month, day) = (v0, v1, v2), or (v0, v2, v1) when dayfirst
\* and v2 <= 12, if v0 > 31 or (yearfirst and v1 <= 12 and v2 <= 31); otherwise
\* to (v2, v1, v0) if v0 > 12 or (dayfirst and v1 <= 12); otherwise to
\* (v2, v0, v1).  So 10, 11, 3 give month 10 and day 11, and with dayfirst
\* month 11 and day 10.
C12_UnlabelledOrder ==
    (pc = "returned" /\ args.fn = "resolve_ymd") =>
        LET v0 == args.values[1]  v1 == args.values[2]  v2 == args.values[3]
            yf == args.yearfirst  df == args.dayfirst
        IN  /\ ret.err = ""
            /\ <<ret.y, ret.m, ret.d>> =
                 IF v0 > 31 \/ (yf /\ v1 <= 12 /\ v2 <= 31)
                   THEN (IF df /\ v2 <= 12
                           THEN <<Some(v0), Some(v2), Some(v1)>>
                           ELSE <<Some(v0), Some(v1), Some(v2)>>)
                 ELSE IF v0 > 12 \/ (df /\ v1 <= 12)
                   THEN <<Some(v2), Some(v1), Some(v0)>>
                 ELSE <<Some(v2), Some(v0), Some(v1)>>
            /\ (args.values = <<10, 11, 3>> /\ ~yf) =>
                 <<ret.m, ret.d>> = IF df THEN <<Some(11), Some(10)>>
                                          ELSE <<Some(10), Some(11)>>

\* a leading year above 31 resolved with the day before the month
C12_Witness ==
    /\ pc = "returned" /\ args.fn = "resolve_ymd"
    /\ args.values = <<32, 11, 3>> /\ args.dayfirst
    /\ <<ret.y, ret.m, ret.d>> = <<Some(32), Some(3), Some(11)>>

-----------------------------------------------------------------------------
(* Properties of Parser::parse on time zones, checked under SpecZones.     *)

\* the token behind l[i] is a written sign
SignFollows ==
    walk.i + 1 < Len(walk.l) /\ Tok(walk, walk.i + 1) \in {<<"+">>, <<"-">>}

\* C13: when the loop reads a time zone name that a '+' or '-' follows, the
\* sign it leaves for the offset is the inverse of the written one ('+' gives
\* '-', '-' gives '+'), the offset looked up for the name is cleared, and a
\* name that is a UTC alias is cleared.
C13_SignInverted ==
    [][ (AtArm("tzname") /\ SignFollows) =>
          /\ Tok(walk', walk.i + 1) =
               (IF Tok(walk, walk.i + 1) = <<"+">> THEN <<"-">> ELSE <<"+">>)
          /\ walk'.res.tzoffset = None
          /\ get_utczone(Tok(walk, walk.i)) => walk'.res.tzname = NoneS ]_vars

\* the offset that the claim gives for the sign l[i] and the tokens behind it
ClaimedOffset(w) ==
    LET i == w.i
        t == Tok(w, i + 1)
        signal == IF Tok(w, i) = <<"+">> THEN 1 ELSE -1
    IN  IF Len(t) = 4
          THEN signal * (ParseSlice(t, 0, 2).v * 3600 + ParseSlice(t, 2, 4).v * 60)
        ELSE IF i + 3 < Len(w.l) /\ Tok(w, i + 2) = <<":">>
          THEN signal * (ParseI32(t).v * 3600 + ParseI32(Tok(w, i + 3)).v * 60)
        ELSE signal * ParseI32(t).v * 3600

\* C14: when the hour is set and the loop reads '+' or '-' with a token of
\* digits behind it, the offset becomes sign * (HH * 3600 + MM * 60) for a
\* four-character token HHMM and for the form HH : MM, and sign * HH * 3600 for
\* a token of at most two characters; so "-0330" gives -12600 seconds.
C14_SignedOffset ==
    [][ ( /\ AtArm("sign")
          /\ walk.i + 1 < Len(walk.l)
          /\ AllDigits(Tok(walk, walk.i + 1))
          /\ \/ Len(Tok(walk, walk.i + 1)) = 4
             \/ /\ walk.i + 3 < Len(walk.l)
                /\ Tok(walk, walk.i + 2) = <<":">>
                /\ AllDigits(Tok(walk, walk.i + 3))
             \/ Len(Tok(walk, walk.i + 1)) <= 2 ) =>
          /\ result' = NoResult
          /\ walk'.res.tzoffset = Some(ClaimedOffset(walk)) ]_vars

\* C15: a parse that does not ignore the time zone returns the parsed offset
\* when one is set, whatever tzinfos holds; otherwise the tzinfos entry of the
\* parsed name when there is one; otherwise no offset, also for a name that
\* tzinfos does not hold.  It never returns TimezoneUnsupported.
C15_OffsetPrecedence ==
    (pc = "done" /\ ~opts.ignoretz) =>
        /\ result.kind = "Ok" =>
             result.offset =
               IF walk.res.tzoffset.some THEN walk.res.tzoffset
               ELSE IF walk.res.tzname.some
                       /\ \E e \in opts.tzinfos : e[1] = Str(walk.res.tzname.v)
                 THEN Some((CHOOSE e \in opts.tzinfos :
                              e[1] = Str(walk.res.tzname.v))[2])
               ELSE None
        /\ result.kind = "Err" => result.e.kind # "TimezoneUnsupported"

\* a returned offset that is the parsed one although tzinfos has another for
\* the parsed name
C15_Witness ==
    /\ pc = "done" /\ ~opts.ignoretz /\ result.kind = "Ok"
    /\ walk.res.tzoffset.some /\ walk.res.tzname.some
    /\ \E e \in opts.tzinfos :
          e[1] = Str(walk.res.tzname.v) /\ e[2] # walk.res.tzoffset.v
    /\ result.offset = walk.res.tzoffset

\* C20: every call of parse ends by returning a date-time or a ParseError: no
\* lookahead, look-behind, sub-slice or unwrap stops the program.
C20_NoAbort == result.kind # "Panic"

-----------------------------------------------------------------------------
(* Properties of Parser::parse on compact forms, checked under SpecCompact. *)

\* a token of six characters, or a longer one with its first '.' at position 6
CompactToken(t) == Len(t) = 6 \/ (Len(t) > 6 /\ Find(t, ".") = Some(6))

\* the digits behind the '.' of position 6, scaled to six places
ScaledFraction(t) ==
    LET f == SubSeq(t, 8, Len(t)) IN
    IF Len(f) <= 6 THEN DigitsValue(f) * Pow10(6 - Len(f))
    ELSE DigitsValue(SubSeq(f, 1, 6))

\* C21: a numeric token of six characters, or a longer one with its first '.'
\* at position 6, is taken as YYMMDD (three unlabelled values appended) exactly
\* when the YMD list is empty and the token has no '.'; otherwise as
\* HHMMSS[.f]: hour, minute and second are the digit pairs 0-1, 2-3 and 4-5, the
\* microsecond is the fraction scaled to six places, within 0..999999.  The
\* pattern comes before the one of 8, 12 or 14 digits, so the strict parse of
\* "19990101T235959.5" returns 1999-01-01 23:59:59.500000.
C21_CompactSix ==
    [][ /\ (AtArm("numeric") /\ CompactToken(Tok(walk, walk.i))) =>
             LET t == Tok(walk, walk.i)
                 pair(k) == DigitsValue(SubSeq(t, k + 1, k + 2))
             IN  IF Len(walk.ymd.values) = 0 /\ ~Contains(t, ".")
                   THEN /\ pc' = "walk"
                        /\ walk'.ymd.values = <<pair(0), pair(2), pair(4)>>
                        /\ ~walk'.ymd.ystridx.some /\ ~walk'.ymd.mstridx.some
                        /\ ~walk'.ymd.dstridx.some
                        /\ walk'.res = walk.res
                   ELSE AllDigits(SubSeq(t, 1, 6)) =>
                        /\ pc' = "walk"
                        /\ walk'.ymd = walk.ymd
                        /\ walk'.res =
                             [walk.res EXCEPT
                                !.hour = Some(pair(0)), !.minute = Some(pair(2)),
                                !.second = Some(pair(4)),
                                !.microsecond = Some(ScaledFraction(t))]
                        /\ walk'.res.microsecond.v \in 0..999999
        /\ ( /\ pc' = "done" /\ Strict
             /\ input = <<"1", "9", "9", "9", "0", "1", "0", "1", "T",
                          "2", "3", "5", "9", "5", "9", ".", "5">> ) =>
             result' = Returned([year |-> 1999, month |-> 1, day |-> 1, hour |-> 23,
                                 minute |-> 59, second |-> 59, microsecond |-> 500000],
                                None, NoneS) ]_vars

\* the strict parse of "19990101T235959.5" returned half a second
C21_Witness ==
    /\ pc = "done" /\ Strict
    /\ input = <<"1", "9", "9", "9", "0", "1", "0", "1", "T",
                 "2", "3", "5", "9", "5", "9", ".", "5">>
    /\ result.kind = "Ok"
    /\ result.dt.microsecond = 500000

-----------------------------------------------------------------------------
(* Properties of Parser::parse on AM/PM hours, checked under SpecAmPm.     *)

\* C22: in the strict parse of "H am" or "H pm", written with or without a
\* space, 0 <= H <= 12, the hour of the result is H + 12 if H < 12 and pm, 0 if
\* H = 12 and am, else H: once the number is read the hour has that value, the
\* arm of the AM/PM word never changes it, and the parse returns a date-time
\* with that hour and never an error.
C22_AmPmOnce ==
    LET expected == IF args.hour < 12 /\ args.pm THEN args.hour + 12
                    ELSE IF args.hour = 12 /\ ~args.pm THEN 0
                    ELSE args.hour
    IN  /\ (pc \in {"walk", "build", "done"} /\ walk.i >= 1) =>
             walk.res.hour = Some(expected)
        /\ result.kind \in {"none", "Ok"}
        /\ pc = "done" => (result.kind = "Ok" /\ result.dt.hour = expected)

\* "0 pm", written with a space, returned noon after the AM/PM arm ran on the
\* hour 12 that the look-ahead had set
C22_Witness ==
    /\ pc = "done"
    /\ args.hour = 0 /\ args.pm /\ args.space
    /\ walk.res.ampm = [some |-> TRUE, v |-> TRUE]
    /\ result.kind = "Ok" /\ result.dt.hour = 12

-----------------------------------------------------------------------------
(* Properties of Parser::parse on month words, checked under SpecMonths.   *)

\* the positions of the month words among the tokens
MonthWords(l) == { k \in 1..Len(l) : get_month(l[k]).some }

\* C23: the append of a second month fails and parse surfaces the failure: the
\* parse of an input with two month words returns an error, never a date.
C23_SecondMonthSurfaced ==
    (pc = "done" /\ Cardinality(MonthWords(walk.l)) >= 2) => result.kind = "Err"

-----------------------------------------------------------------------------
(* Termination of tokenize and of the token loop, checked under SpecLive.  *)

\* C24: the token walk terminates on every input.  Every iteration of the
\* loop that does not end the parse leaves i larger than it was; every call of
\* Tokenizer::next that returns a token either pops the token stack, leaving
\* the input alone, or consumes at least one character of the input; and every
\* parse comes to its end.
C24_WalkTerminates ==
    /\ [][ /\ (pc = "walk" /\ pc' = "walk") => walk'.i > walk.i
           /\ (pc = "tokenize" /\ ~tdone /\ ~tdone') =>
                \/ /\ token_stack # <<>>
                   /\ Len(token_stack') = Len(token_stack) - 1
                   /\ parse_string' = parse_string
                \/ Len(parse_string') < Len(parse_string) ]_vars
    /\ <>(pc = "done")

\* a strict parse whose loop has passed over every one of three or more
\* tokens, a jump word among them, after a tokenize that used up the input
C24_Witness ==
    /\ pc = "done"
    /\ Strict
    /\ parse_string = <<>> /\ token_stack = <<>> /\ tdone
    /\ Len(walk.l) >= 3
    /\ walk.i >= Len(walk.l)
    /\ \E k \in 1..Len(walk.l) : get_jump(walk.l[k])

-----------------------------------------------------------------------------
(* Properties of YMD::resolve_ymd on labelled lists, checked under         *)
(* SpecLabels.                                                             *)

\* the label idx, if set, chose the value that resolve_ymd returned in field
Honoured(idx, field) ==
    idx.some => field = Some(walk.ymd.values[idx.v + 1])

\* C25: whenever resolve_ymd succeeds on a list of one to three values, the
\* year it returns is the value at ystridx if ystridx is set, the month the
\* value at mstridx if mstridx is set, the day the value at dstridx if dstridx
\* is set.
C25_LabelsHonoured ==
    (pc = "returned" /\ ret.err = "" /\ Len(walk.ymd.values) \in 1..3) =>
        /\ Honoured(walk.ymd.ystridx, ret.y)
        /\ Honoured(walk.ymd.mstridx, ret.m)
        /\ Honoured(walk.ymd.dstridx, ret.d)

\* the orders in which three list positions can be handed out
Orders3 == { p \in [1..3 -> 1..3] : \A j, k \in 1..3 : p[j] = p[k] => j = k }

\* C26: whenever the list holds exactly three values and resolve_ymd succeeds,
\* the year, month and day it returns are all set and are the values of the
\* three list positions, each position used once, whatever the labels,
\* yearfirst and dayfirst.
C26_ThreeIsPermutation ==
    (pc = "returned" /\ ret.err = "" /\ Len(walk.ymd.values) = 3) =>
        \E p \in Orders3 :
            /\ ret.y = Some(walk.ymd.values[p[1]])
            /\ ret.m = Some(walk.ymd.values[p[2]])
            /\ ret.d = Some(walk.ymd.values[p[3]])

\* "2003", "Feb", "13" with the Year and Month labels: the day is the value of
\* the position that no label names
C26_Witness ==
    /\ pc = "returned" /\ ret.err = ""
    /\ walk.ymd.values = <<2003, 2, 13>>
    /\ walk.ymd.ystridx = Some(0) /\ walk.ymd.mstridx = Some(1)
    /\ ret = Resolved(Some(2003), Some(2), Some(13))

-----------------------------------------------------------------------------
(* The time fields that reach the assembler, checked under SpecCompact.    *)

\* the Option field f is unset or within lo..hi
Within(f, lo, hi) == f.some => (lo <= f.v /\ f.v <= hi)

\* C27: no ParsingResult that reaches build_naive carries a time field out of
\* range: hour within 0..23, minute within 0..59, second within 0..59,
\* microsecond within 0..999999.
C27_TimeInRange ==
    pc = "build" =>
        /\ Within(walk.res.hour, 0, 23)
        /\ Within(walk.res.minute, 0, 59)
        /\ Within(walk.res.second, 0, 59)
        /\ Within(walk.res.microsecond, 0, 999999)

====
